---- MODULE Spec2Model ----
(***************************************************************************)
(* LCMware (python/lcmware): the Service and Action runtimes on top of a   *)
(* publish/subscribe bus.                                                  *)
(*                                                                         *)
(* Spec    : one ServiceClient used by concurrent caller threads, one      *)
(*           ServiceServer, and the dispatch thread that drains the bus.   *)
(* ActSpec : one ActionClient, its ActionHandles, one ActionServer with    *)
(*           its per-goal worker threads, and the dispatch thread; several *)
(*           goals, sent by concurrent threads.                            *)
(* CancelSpec : the same endpoints with one goal and threads that invoke   *)
(*           cancel() on its handle.                                       *)
(* FeedbackSpec : the same endpoints with one goal whose handler sends     *)
(*           feedback to a callback registered on the handle.              *)
(* RoutingSpec : the same with several goals.                              *)
(* ResultSpec : the ActionClient with an ActionServer of another process.  *)
(* MgrSpec : the LCMManager, its dispatch threads, and user threads that   *)
(*           call handle_once().                                           *)
(* LockSpec : the action endpoints with feedback callbacks that call back  *)
(*           into the client while the dispatch thread holds its lock.     *)
(* TeardownSpec : endpoints of every kind, started, used and stopped.      *)
(* ConstructSpec : the LCMManager singleton, shutdown(), and clients       *)
(*           constructed with names of any length.                         *)
(* EntrySpec : publish(), call() and send_goal() with instances of the     *)
(*           right type and of a wrong one.                                *)
(* CallbackSpec : the action endpoints with several feedback callbacks on  *)
(*           a handle, some of which raise.                                *)
(* AbandonSpec : the ActionClient with an ActionServer of another process, *)
(*           stop() of the client and get_result on the handles.           *)
(*                                                                         *)
(* A correlation id "<client_name>_<k>" is modelled by the counter value   *)
(* k: each specification has one client, so the name part is constant.     *)
(* Every bus channel is a FIFO queue; the per-request and per-goal         *)
(* channels are indexed by the id in their name.  The feedbacks and the    *)
(* result that one worker thread publishes are dispatched in that order.   *)
(***************************************************************************)
EXTENDS Integers, Sequences, FiniteSets, TLC

\* ------------------------------------------------------------------ bounds
\* call() invocations made on the ServiceClient during its lifetime
MaxCalls == 2
\* send_goal() invocations made on the ActionClient during its lifetime
MaxGoals == 2
\* cancel() invocations made on the handles of the ActionClient
MaxCancels == 2
\* feedback messages a handler sends for one goal
MaxFeedback == 2
\* dispatch threads the LCMManager creates during its lifetime
MaxThreads == 2
\* user threads that call handle_once() on the ServiceServer
MaxCallers == 2
\* messages received by the bus handle and not yet dispatched
MaxMsgs == 2

\* lcm.LCM() handles created during the process's lifetime
MaxHandles == 2
\* clients constructed during the process's lifetime
MaxEndpoints == 3
\* length of the longest client_name given to a constructor
MaxNameLen == 18
\* feedback callbacks registered on one handle
MaxCallbacks == 2

CallNos == 1..MaxCalls
\* values the request counter can take, hence the ids "<client_name>_<k>"
Ids == 1..MaxCalls

VARIABLES
    \* ---- ServiceClient
    request_counter,   \* self._request_counter
    responses,         \* self._responses: id -> Future (named by its call)
    call,              \* per invocation of call(): position, locals, Future
    subscriptions,     \* response subscriptions held on the bus handle
    \* ---- ServiceServer
    srv_running,       \* self._running
    srv_subscription,  \* self._subscription is not None
    srv_log,           \* history, per request: how it was handled, what was published
    \* ---- bus
    req_chan,          \* "<service>/req"
    rsp_chan,          \* "<service>/rsp/<id>", by id
    \* ---- ActionClient and its ActionHandles
    goal_counter,      \* self._goal_counter
    active_goals,      \* self._active_goals: goal id -> handle
    send,              \* per invocation of send_goal(): position, locals
    handle,            \* the ActionHandle each send_goal() creates (got and
                       \* cancels_published are history)
    client_subscriptions, \* self._subscriptions
    cancel_call,       \* per invocation of ActionHandle.cancel(): position
    \* ---- ActionServer
    as_running,        \* self._running
    as_subscriptions,  \* self._subscriptions (goal and cancel)
    as_active_goals,   \* self._active_goals: goal id -> worker thread
    worker,            \* the execute_action thread of each goal received
    \* ---- bus
    goal_chan,         \* "<action>/goal"
    cancel_chan,       \* "<action>/cancel"
    res_chan,          \* "<action>/res/<goal_id>", by id
    fb_chan,           \* "<action>/fb/<goal_id>", by id
    result_type,       \* the result type given to ActionClient and ActionServer:
                       \* with a status field, or with a response_header field
    \* ---- LCMManager
    mgr_running,       \* self._running
    handler_threads,   \* self._handler_threads
    thread,            \* the position of each dispatch thread in _handle_loop
    caller,            \* per user thread: its position in handle_once()
    bus,               \* messages received by the shared handle, not yet dispatched
    \* ---- LCMManager singleton and the endpoints constructed later
    instance,          \* LCMManager._instance: the bus handle it owns, 0 for None
    lcm_count,         \* lcm.LCM() handles created so far
    endpoints,         \* per client constructed later: outcome, name, self._lcm
    \* ---- ActionClient lock and user code
    client_lock,       \* ActionClient._lock: "free", or its holder across steps
    callback,          \* the feedback callback the dispatch thread is running
    \* ---- TopicPublisher and TopicSubscriber
    topic,             \* the subscriber: self._subscribed, self._subscription;
                       \* history: what its callback was given, and how many
                       \* publish() calls raised TypeError
    topic_chan,        \* the topic's channel
    \* ---- dispatch
    dispatching,       \* per dispatch thread: the callback it runs and what fails in it
    \* ---- the bus handle
    lcm_subscriptions  \* per server channel: the subscriptions the handle holds

svc_vars == <<request_counter, responses, call, subscriptions,
              srv_running, srv_subscription, srv_log, req_chan, rsp_chan>>

act_vars == <<goal_counter, active_goals, send, handle, client_subscriptions,
              cancel_call, as_running, as_subscriptions, as_active_goals,
              worker, goal_chan, cancel_chan, res_chan>>

fb_vars == <<fb_chan, result_type>>

mgr_vars == <<mgr_running, handler_threads, thread, caller, bus>>

lcm_vars == <<instance, lcm_count, endpoints>>

usr_vars == <<client_lock, callback, topic, topic_chan, dispatching>>

ext_vars == <<usr_vars, lcm_subscriptions>>

vars == <<svc_vars, act_vars, fb_vars, mgr_vars, lcm_vars, ext_vars>>

\* the channels the servers subscribe: "<service>/req", "<action>/goal" and
\* "<action>/cancel"
ServerChannels == {"req", "goal", "cancel"}

\* ------------------------------------------------------------ messages
\* A response as built by ServiceServer._handle_request.  req is history:
\* the call whose request triggered the response (not a wire field).
NoResponse == [id |-> 0, success |-> FALSE, error_message |-> "", body |-> 0, req |-> 0]

PendingFuture == [st |-> "pending", rsp |-> NoResponse]

\* the header of a message instance as its constructor leaves it
NoHeader == [id |-> 0, timestamp_us |-> 0]
\* the request or goal instance the caller of call number n passes in: a
\* header the framework has not touched, and the caller's payload
UserMessage(n) == [header |-> NoHeader, body |-> n]
NoMessage == [header |-> NoHeader, body |-> 0]

\* the classes an instance passed to publish(), call() or send_goal() can
\* be of: the endpoint's message type, or another
InstanceTypes == {"expected", "other"}

\* _validate_message_instance: isinstance(message, expected_type) (an
\* instance of an LCM type has encode())
validate_message_instance(ty) ==
    ty = "expected"

\* lines 164-177 of call(): a new instance of the request type, every
\* payload field copied from the caller's instance, and the time (a value
\* other than 0) stamped on the header of the copy
copy_request(request) ==
    [header |-> [id |-> 0, timestamp_us |-> 1], body |-> request.body]

\* A faulty variant of stamp_id that writes the id to the caller's instance
\* as well.
stamp_id_InPlace(c, id) ==
    [c EXCEPT !.id = id, !.copy.header.id = id, !.request.header.id = id]

\* request_copy.header.id = ...: the id is written to the copy (c is the
\* frame of the call: its locals and the caller's instance)
stamp_id(c, id) ==
    [c EXCEPT !.id = id, !.copy.header.id = id]

\* lines 263-277 of send_goal(): the copy, with time and id stamped
stamp_goal(c, id) ==
    [c EXCEPT !.id = id,
              !.copy = [header |-> [id |-> id, timestamp_us |-> 1],
                        body |-> c.request.body]]

\* message.encode(), as far as the model tells messages apart
encode(m) ==
    [id |-> m.header.id, timestamp_us |-> m.header.timestamp_us, body |-> m.body]
NoOutcome == [kind |-> "none", rsp |-> NoResponse]

\* What the user's service handler can do with a request: return a response
\* instance, return something that is not a response instance, raise an
\* exception with some text (str(e) is "" for a bare raise or a failed
\* assert), or return a response instance that encode() rejects.
HandlerOutcomes ==
    { [kind |-> "ok", text |-> ""],
      [kind |-> "wrong_type", text |-> ""],
      [kind |-> "raise", text |-> ""],
      [kind |-> "raise", text |-> "bad"],
      [kind |-> "unencodable", text |-> ""] }

\* str(TypeError) of _validate_message_instance
TypeErrorText == "handler response: Expected Resp"

\* ------------------------------------------------------------ dict helpers
DictPut(d, k, v) == [x \in DOMAIN d \cup {k} |-> IF x = k THEN v ELSE d[x]]
DictPop(d, k) == [x \in DOMAIN d \ {k} |-> d[x]]

\* ------------------------------------------------------------ LCMManager
ThreadNos == 1..MaxThreads
CallerNos == 1..MaxCallers

\* LCMManager._initialize; no thread has been created, no user thread is in
\* handle_once()
MgrInit ==
    /\ mgr_running = FALSE
    /\ handler_threads = {}
    /\ thread = [t \in ThreadNos |-> "none"]
    /\ caller = [u \in CallerNos |-> "idle"]
    /\ bus = 0

\* constants.py
MAX_CLIENT_NAME_LENGTH == 16

EndpointNos == 1..MaxEndpoints

\* the client_name arguments given to a constructor, by their length; 0 is
\* for None and for the empty string, which "if client_name:" treats alike
NameLens == 0..MaxNameLen

\* A faulty variant of client_name_rejected that refuses the longest name
\* allowed.
client_name_rejected_OffByOne(L) ==
    L # 0 /\ L >= MAX_CLIENT_NAME_LENGTH

\* __init__ raises ValueError: a name was given and is too long
client_name_rejected(L) ==
    L # 0 /\ L > MAX_CLIENT_NAME_LENGTH

\* the length of self._client_name: the name given, or "cli_" / "act_"
\* followed by the first five characters of a uuid4
client_name_len(L) ==
    IF L # 0 THEN L ELSE Len(<<"c", "l", "i", "_">>) + 5
\* a client that has not been constructed.  Of a constructed one: whether
\* __init__ returned ("ok") or raised ("error"), the length of
\* self._client_name, and the handle kept as self._lcm; arg is history, the
\* client_name argument
NoEndpoint == [st |-> "none", arg |-> 0, name_len |-> 0, lcm |-> 0]

\* The process has constructed its first endpoints: LCMManager.__new__ and
\* _initialize have created the singleton and its lcm.LCM() handle, number
\* 1, which those endpoints store as self._lcm.  Endpoint 1 is one of them,
\* a client constructed without a client_name.
LcmInit ==
    /\ instance = 1
    /\ lcm_count = 1
    /\ endpoints = [e \in EndpointNos |->
                      IF e = 1 THEN [st |-> "ok", arg |-> 0,
                                     name_len |-> client_name_len(0), lcm |-> 1]
                      ELSE NoEndpoint]

\* LCMManager.get_instance() / LCMManager(): the double-checked __new__
\* creates the singleton and, in _initialize, a new lcm.LCM() handle when
\* _instance is None.  (The new manager starts with _running False and an
\* empty thread list, which are the values shutdown left.)
get_instance ==
    IF instance # 0
        THEN UNCHANGED <<instance, lcm_count>>
        ELSE /\ lcm_count' = lcm_count + 1
             /\ instance' = lcm_count + 1

\* a dispatch thread that is not in a callback; survived is history: the
\* thread has returned from a callback in which something failed
NoDispatch == [cb |-> "none", fault |-> "none", survived |-> FALSE]

\* dispatch threads that have been started and have not terminated
Alive == {t \in ThreadNos : thread[t] \in {"check", "handle", "callback"}}

\* start_handler_thread (and start_lcm_handler, which endpoints call), under
\* self._handler_lock: if not running, set the flag, start a thread at the
\* top of _handle_loop and append it to the list
start_handler_thread ==
    IF mgr_running
        THEN UNCHANGED <<mgr_running, handler_threads, thread>>
        ELSE \E t \in ThreadNos :
                /\ thread[t] = "none"
                /\ \A x \in 1..(t - 1) : thread[x] # "none"
                /\ mgr_running' = TRUE
                /\ thread' = [thread EXCEPT ![t] = "check"]
                /\ handler_threads' = handler_threads \cup {t}

\* start_lcm_handler(): LCMManager.get_instance().start_handler_thread()
start_lcm_handler ==
    /\ get_instance
    /\ start_handler_thread

\* ------------------------------------------------------------ ServiceClient
SvcInit ==
    /\ request_counter = 0
    /\ responses = <<>>
    /\ call = [n \in CallNos |->
                 [pc |-> "idle", tmp |-> 0, id |-> 0,
                  request |-> UserMessage(n), copy |-> NoMessage,
                  fut |-> PendingFuture, out |-> NoOutcome]]
    /\ subscriptions = {}
    /\ srv_running = FALSE
    /\ srv_subscription = FALSE
    /\ srv_log = [n \in CallNos |-> <<>>]
    /\ req_chan = <<>>
    /\ rsp_chan = [i \in Ids |-> <<>>]

\* call() is entered by some thread with an instance of the request type:
\* the validation passes, the handler thread is started, the copy is made,
\* then self._request_counter += 1, first half: read the attribute
CallLoadCounter(n) ==
    /\ call[n].pc = "idle"
    /\ \A m \in 1..(n - 1) : call[m].pc # "idle"
    /\ call' = [call EXCEPT ![n].pc = "store", ![n].tmp = request_counter,
                            ![n].copy = copy_request(call[n].request)]
    /\ UNCHANGED <<request_counter, responses, subscriptions, srv_running,
                   srv_subscription, srv_log, req_chan, rsp_chan>>
    /\ start_lcm_handler
    /\ UNCHANGED <<caller, bus>>
    /\ UNCHANGED <<act_vars, fb_vars, endpoints, ext_vars>>

\* A faulty variant of CallRejected that validates the instance after the
\* id has been generated.
CallRejected_CountsFirst(n) ==
    /\ call[n].pc = "idle"
    /\ \A m \in 1..(n - 1) : call[m].pc # "idle"
    /\ \E ty \in InstanceTypes : ~validate_message_instance(ty)
    /\ request_counter' = request_counter + 1
    /\ call' = [call EXCEPT ![n].pc = "done",
                            ![n].out = [kind |-> "type_error", rsp |-> NoResponse]]
    /\ UNCHANGED <<responses, subscriptions, srv_running,
                   srv_subscription, srv_log, req_chan, rsp_chan>>
    /\ UNCHANGED <<act_vars, fb_vars, mgr_vars, lcm_vars, ext_vars>>

\* call() is entered with an instance that is not of the request type:
\* _validate_message_instance, the first statement, raises TypeError
CallRejected(n) ==
    /\ call[n].pc = "idle"
    /\ \A m \in 1..(n - 1) : call[m].pc # "idle"
    /\ \E ty \in InstanceTypes : ~validate_message_instance(ty)
    /\ call' = [call EXCEPT ![n].pc = "done",
                            ![n].out = [kind |-> "type_error", rsp |-> NoResponse]]
    /\ UNCHANGED <<request_counter, responses, subscriptions, srv_running,
                   srv_subscription, srv_log, req_chan, rsp_chan>>
    /\ UNCHANGED <<act_vars, fb_vars, mgr_vars, lcm_vars, ext_vars>>

\* self._request_counter += 1, second half: write the attribute
CallStoreCounter(n) ==
    /\ call[n].pc = "store"
    /\ request_counter' = call[n].tmp + 1
    /\ call' = [call EXCEPT ![n].pc = "read"]
    /\ UNCHANGED <<responses, subscriptions, srv_running,
                   srv_subscription, srv_log, req_chan, rsp_chan>>
    /\ UNCHANGED <<act_vars, fb_vars, mgr_vars, lcm_vars, ext_vars>>

\* request_copy.header.id = f"{self._client_name}_{self._request_counter}"
\* (a second read of the attribute)
CallReadId(n) ==
    /\ call[n].pc = "read"
    /\ call' = [call EXCEPT ![n] = [stamp_id(@, request_counter) EXCEPT !.pc = "slot"]]
    /\ UNCHANGED <<request_counter, responses, subscriptions, srv_running,
                   srv_subscription, srv_log, req_chan, rsp_chan>>
    /\ UNCHANGED <<act_vars, fb_vars, mgr_vars, lcm_vars, ext_vars>>

\* future = Future(); with lock: self._responses[id] = future
CallCreateSlot(n) ==
    /\ call[n].pc = "slot"
    /\ responses' = DictPut(responses, call[n].id, n)
    /\ call' = [call EXCEPT ![n].pc = "subscribe"]
    /\ UNCHANGED <<request_counter, subscriptions, srv_running,
                   srv_subscription, srv_log, req_chan, rsp_chan>>
    /\ UNCHANGED <<act_vars, fb_vars, mgr_vars, lcm_vars, ext_vars>>

\* subscription = self._lcm.subscribe(response_channel, handle_response)
CallSubscribe(n) ==
    /\ call[n].pc = "subscribe"
    /\ subscriptions' = subscriptions \cup {[call |-> n, id |-> call[n].id]}
    /\ call' = [call EXCEPT ![n].pc = "publish"]
    /\ UNCHANGED <<request_counter, responses, srv_running,
                   srv_subscription, srv_log, req_chan, rsp_chan>>
    /\ UNCHANGED <<act_vars, fb_vars, mgr_vars, lcm_vars, ext_vars>>

\* self._lcm.publish(request_channel, request_copy.encode())
CallPublish(n) ==
    /\ call[n].pc = "publish"
    /\ req_chan' = Append(req_chan, encode(call[n].copy))
    /\ call' = [call EXCEPT ![n].pc = "wait"]
    /\ UNCHANGED <<request_counter, responses, subscriptions, srv_running,
                   srv_subscription, srv_log, rsp_chan>>
    /\ UNCHANGED <<act_vars, fb_vars, mgr_vars, lcm_vars, ext_vars>>

\* publish raises: not a TimeoutError, so only the finally clause runs
CallPublishFails(n) ==
    /\ call[n].pc = "publish"
    /\ call' = [call EXCEPT ![n].pc = "finally",
                            ![n].out = [kind |-> "publish_error", rsp |-> NoResponse]]
    /\ UNCHANGED <<request_counter, responses, subscriptions, srv_running,
                   srv_subscription, srv_log, req_chan, rsp_chan>>
    /\ UNCHANGED <<act_vars, fb_vars, mgr_vars, lcm_vars, ext_vars>>

\* A faulty variant of FutureOutcome that hands the response back whatever
\* the Future holds; C4 does not hold of it.
FutureOutcome_AlwaysReturns(fut) ==
    [kind |-> "return", rsp |-> fut.rsp]

\* future.result(timeout) of a completed Future: the result, or the
\* exception set on it
FutureOutcome(fut) ==
    IF fut.st = "result"
        THEN [kind |-> "return", rsp |-> fut.rsp]
        ELSE [kind |-> "raise", rsp |-> fut.rsp]

CallWaitDone(n) ==
    /\ call[n].pc = "wait"
    /\ call[n].fut.st # "pending"
    /\ call' = [call EXCEPT ![n].pc = "finally",
                            ![n].out = FutureOutcome(call[n].fut)]
    /\ UNCHANGED <<request_counter, responses, subscriptions, srv_running,
                   srv_subscription, srv_log, req_chan, rsp_chan>>
    /\ UNCHANGED <<act_vars, fb_vars, mgr_vars, lcm_vars, ext_vars>>

\* future.result(timeout) raises TimeoutError: the Future is still pending
CallWaitTimeout(n) ==
    /\ call[n].pc = "wait"
    /\ call[n].fut.st = "pending"
    /\ call' = [call EXCEPT ![n].pc = "except"]
    /\ UNCHANGED <<request_counter, responses, subscriptions, srv_running,
                   srv_subscription, srv_log, req_chan, rsp_chan>>
    /\ UNCHANGED <<act_vars, fb_vars, mgr_vars, lcm_vars, ext_vars>>

\* A faulty variant of CallExceptTimeout that raises TimeoutError without
\* passing through the finally clause; C7 does not hold of it.
CallExceptTimeout_NoFinally(n) ==
    /\ call[n].pc = "except"
    /\ responses' = DictPop(responses, call[n].id)
    /\ call' = [call EXCEPT ![n].pc = "done",
                            ![n].out = [kind |-> "timeout", rsp |-> NoResponse]]
    /\ UNCHANGED <<request_counter, subscriptions, srv_running,
                   srv_subscription, srv_log, req_chan, rsp_chan>>
    /\ UNCHANGED <<act_vars, fb_vars, mgr_vars, lcm_vars, ext_vars>>

\* except TimeoutError: with lock: self._responses.pop(id, None); raise
CallExceptTimeout(n) ==
    /\ call[n].pc = "except"
    /\ responses' = DictPop(responses, call[n].id)
    /\ call' = [call EXCEPT ![n].pc = "finally",
                            ![n].out = [kind |-> "timeout", rsp |-> NoResponse]]
    /\ UNCHANGED <<request_counter, subscriptions, srv_running,
                   srv_subscription, srv_log, req_chan, rsp_chan>>
    /\ UNCHANGED <<act_vars, fb_vars, mgr_vars, lcm_vars, ext_vars>>

\* finally: self._lcm.unsubscribe(subscription); call() returns or raises
CallFinally(n) ==
    /\ call[n].pc = "finally"
    /\ subscriptions' = subscriptions \ {[call |-> n, id |-> call[n].id]}
    /\ call' = [call EXCEPT ![n].pc = "done"]
    /\ UNCHANGED <<request_counter, responses, srv_running,
                   srv_subscription, srv_log, req_chan, rsp_chan>>
    /\ UNCHANGED <<act_vars, fb_vars, mgr_vars, lcm_vars, ext_vars>>

\* handle_response: the Future a decoded response completes, if any.
\* Returns the pair <<responses, call>> after the callback.
handle_response(rsp) ==
    IF rsp.id \in DOMAIN responses
        THEN LET n == responses[rsp.id]
             IN  <<DictPop(responses, rsp.id),
                   [call EXCEPT ![n].fut =
                        [st |-> IF rsp.success THEN "result" ELSE "exc",
                         rsp |-> rsp]]>>
        ELSE <<responses, call>>

\* ------------------------------------------------------------ ServiceServer
\* ServiceServer.start with the test of self._running left out
SrvStart_Unguarded ==
    /\ srv_subscription' = TRUE
    /\ lcm_subscriptions' = [lcm_subscriptions EXCEPT !["req"] = @ + 1]
    /\ srv_running' = TRUE
    /\ start_lcm_handler
    /\ UNCHANGED <<request_counter, responses, call, subscriptions,
                   srv_log, req_chan, rsp_chan>>
    /\ UNCHANGED <<caller, bus>>
    /\ UNCHANGED <<act_vars, fb_vars, endpoints, usr_vars>>

\* ServiceServer.start, under self._lock: a running server logs a warning
\* and returns; otherwise subscribe the request channel, set the flag and
\* start the dispatch thread
SrvStart ==
    /\ IF srv_running
          THEN UNCHANGED <<srv_subscription, lcm_subscriptions, srv_running,
                           mgr_running, handler_threads, thread, instance, lcm_count>>
          ELSE /\ srv_subscription' = TRUE
               /\ lcm_subscriptions' = [lcm_subscriptions EXCEPT !["req"] = @ + 1]
               /\ srv_running' = TRUE
               /\ start_lcm_handler
    /\ UNCHANGED <<request_counter, responses, call, subscriptions,
                   srv_log, req_chan, rsp_chan>>
    /\ UNCHANGED <<caller, bus>>
    /\ UNCHANGED <<act_vars, fb_vars, endpoints, usr_vars>>

\* ServiceServer.stop, under self._lock: a server that is not running logs
\* a warning and returns; otherwise unsubscribe self._subscription, if any,
\* and clear the flag
SrvStop ==
    /\ IF srv_running
          THEN /\ lcm_subscriptions' = [lcm_subscriptions EXCEPT !["req"] =
                      IF srv_subscription THEN @ - 1 ELSE @]
               /\ srv_subscription' = FALSE
               /\ srv_running' = FALSE
          ELSE UNCHANGED <<srv_subscription, lcm_subscriptions, srv_running>>
    /\ UNCHANGED <<request_counter, responses, call, subscriptions,
                   srv_log, req_chan, rsp_chan>>
    /\ UNCHANGED <<act_vars, fb_vars, mgr_vars, lcm_vars, usr_vars>>

\* _handle_request, lines 339-355: the response object after the inner
\* try/except, before the header is stamped
HandlerResponse(req, o) ==
    IF o.kind \in {"ok", "unencodable"}
        THEN [id |-> 0, success |-> TRUE, error_message |-> "",
              body |-> req.body, req |-> req.body]
    ELSE IF o.kind = "wrong_type"
        THEN [id |-> 0, success |-> FALSE, error_message |-> TypeErrorText,
              body |-> 0, req |-> req.body]
        ELSE [id |-> 0, success |-> FALSE, error_message |-> o.text,
              body |-> 0, req |-> req.body]

\* _handle_request, lines 357-363: stamp the header and publish; encode()
\* raising is caught by the outer except, and nothing is published.
\* Returns the messages published, each with its channel id.
PublishedResponses(req, o) ==
    IF o.kind = "unencodable"
        THEN <<>>
        ELSE <<[chan |-> req.id,
                rsp |-> [HandlerResponse(req, o) EXCEPT !.id = req.id]]>>

RECURSIVE PublishAll(_, _)
PublishAll(chans, pubs) ==
    IF pubs = <<>> THEN chans
    ELSE PublishAll([chans EXCEPT ![Head(pubs).chan] = Append(@, Head(pubs).rsp)],
                    Tail(pubs))

\* ------------------------------------------------------------ dispatch
\* The dispatch thread takes the next message of the request channel and
\* invokes the server's callback, if it is subscribed.
DeliverRequest ==
    /\ req_chan # <<>>
    /\ req_chan' = Tail(req_chan)
    /\ IF srv_subscription
          THEN \E o \in HandlerOutcomes :
                 LET req == Head(req_chan)
                     pubs == PublishedResponses(req, o)
                 IN  /\ rsp_chan' = PublishAll(rsp_chan, pubs)
                     /\ srv_log' = [srv_log EXCEPT ![req.body] = Append(@,
                            [req |-> req, outcome |-> o, published |-> pubs])]
          ELSE UNCHANGED <<rsp_chan, srv_log>>
    /\ UNCHANGED <<request_counter, responses, call, subscriptions,
                   srv_running, srv_subscription>>
    /\ UNCHANGED <<act_vars, fb_vars, mgr_vars, lcm_vars, ext_vars>>

\* The dispatch thread takes the next message of a response channel and
\* invokes every handle_response subscribed to it.  All of them run the same
\* code on the same map, so the first one does the work.
DeliverResponse(i) ==
    /\ rsp_chan[i] # <<>>
    /\ rsp_chan' = [rsp_chan EXCEPT ![i] = Tail(@)]
    /\ IF \E s \in subscriptions : s.id = i
          THEN /\ responses' = handle_response(Head(rsp_chan[i]))[1]
               /\ call' = handle_response(Head(rsp_chan[i]))[2]
          ELSE UNCHANGED <<responses, call>>
    /\ UNCHANGED <<request_counter, subscriptions, srv_running,
                   srv_subscription, srv_log, req_chan>>
    /\ UNCHANGED <<act_vars, fb_vars, mgr_vars, lcm_vars, ext_vars>>

SvcNext ==
    \/ \E n \in CallNos : CallLoadCounter(n)
    \/ \E n \in CallNos : CallStoreCounter(n)
    \/ \E n \in CallNos : CallReadId(n)
    \/ \E n \in CallNos : CallCreateSlot(n)
    \/ \E n \in CallNos : CallSubscribe(n)
    \/ \E n \in CallNos : CallPublish(n)
    \/ \E n \in CallNos : CallPublishFails(n)
    \/ \E n \in CallNos : CallWaitDone(n)
    \/ \E n \in CallNos : CallWaitTimeout(n)
    \/ \E n \in CallNos : CallExceptTimeout(n)
    \/ \E n \in CallNos : CallFinally(n)
    \/ SrvStart
    \/ SrvStop
    \/ DeliverRequest
    \/ \E i \in Ids : DeliverResponse(i)

\* ============================================================== actions
GoalNos == 1..MaxGoals
\* values the goal counter can take, hence the goal ids "<client_name>_<k>"
GoalIds == 1..MaxGoals
CancelNos == 1..MaxCancels

\* constants.ActionStatus
ACCEPTED == 1
EXECUTING == 2
SUCCEEDED == 3
ABORTED == 4
CANCELED == 5

\* What the user's action handler can do with a goal: return a result (its
\* own status field left at the default, or set to CANCELED by a handler
\* that noticed the cancellation), raise an exception, or return a result
\* instance that encode() rejects.
ActionOutcomes ==
    { [kind |-> "ok", status |-> 0, text |-> ""],
      [kind |-> "ok", status |-> CANCELED, text |-> "cancelled"],
      [kind |-> "raise", status |-> 0, text |-> "bad"],
      [kind |-> "unencodable", status |-> 0, text |-> ""] }

\* The two shapes of result type that _verify_action_types accepts
ResultTypes == {"status", "response_header"}

NoResult == [id |-> 0, status |-> 0, message |-> "", body |-> 0]
NoWorkerOutcome == [kind |-> "none", status |-> 0, text |-> ""]

ActInit ==
    /\ goal_counter = 0
    /\ active_goals = <<>>
    /\ send = [g \in GoalNos |-> [pc |-> "idle", tmp |-> 0, id |-> 0,
                                   request |-> UserMessage(g), copy |-> NoMessage]]
    /\ handle = [g \in GoalNos |->
                   [goal_id |-> 0, status |-> 0, cancelled |-> FALSE,
                    fut |-> [st |-> "pending", res |-> NoResult],
                    feedback_callbacks |-> <<>>, observed |-> <<>>,
                    got |-> [kind |-> "none", status |-> 0, cb |-> FALSE],
                    cancels_published |-> 0]]
    /\ client_subscriptions = {}
    /\ cancel_call = [k \in CancelNos |-> [pc |-> "idle", h |-> 0]]
    /\ as_running = FALSE
    /\ as_subscriptions = {}
    /\ as_active_goals = <<>>
    /\ worker = [g \in GoalNos |->
                   [st |-> "none", id |-> 0, outcome |-> NoWorkerOutcome,
                    fb_sent |-> 0, published |-> NoResult,
                    cancel_received |-> FALSE]]
    /\ goal_chan = <<>>
    /\ cancel_chan = <<>>
    /\ res_chan = [i \in GoalIds |-> <<>>]
    /\ fb_chan = [i \in GoalIds |-> <<>>]
    /\ result_type \in ResultTypes

\* ------------------------------------------------------------ ActionClient
\* send_goal() is entered by some thread with an instance of the goal type:
\* the validation passes, the handler thread is started, then
\* self._goal_counter += 1, first half: read the attribute
SendLoadCounter(g) ==
    /\ send[g].pc = "idle"
    /\ \A m \in 1..(g - 1) : send[m].pc # "idle"
    /\ send' = [send EXCEPT ![g].pc = "store", ![g].tmp = goal_counter]
    /\ UNCHANGED <<goal_counter, active_goals, handle, client_subscriptions,
                   cancel_call, as_running, as_subscriptions, as_active_goals,
                   worker, goal_chan, cancel_chan, res_chan>>
    /\ start_lcm_handler
    /\ UNCHANGED <<caller, bus>>
    /\ UNCHANGED <<svc_vars, fb_vars, endpoints, ext_vars>>

\* send_goal() is entered with an instance that is not of the goal type:
\* _validate_message_instance, the first statement, raises TypeError
SendRejected(g) ==
    /\ send[g].pc = "idle"
    /\ \A m \in 1..(g - 1) : send[m].pc # "idle"
    /\ \E ty \in InstanceTypes : ~validate_message_instance(ty)
    /\ send' = [send EXCEPT ![g].pc = "rejected"]
    /\ UNCHANGED <<goal_counter, active_goals, handle, client_subscriptions,
                   cancel_call, as_running, as_subscriptions, as_active_goals,
                   worker, goal_chan, cancel_chan, res_chan>>
    /\ UNCHANGED <<svc_vars, fb_vars, mgr_vars, lcm_vars, ext_vars>>

\* self._goal_counter += 1, second half: write the attribute
SendStoreCounter(g) ==
    /\ send[g].pc = "store"
    /\ goal_counter' = send[g].tmp + 1
    /\ send' = [send EXCEPT ![g].pc = "read"]
    /\ UNCHANGED <<active_goals, handle, client_subscriptions,
                   cancel_call, as_running, as_subscriptions, as_active_goals,
                   worker, goal_chan, cancel_chan, res_chan>>
    /\ UNCHANGED <<svc_vars, fb_vars, mgr_vars, lcm_vars, ext_vars>>

\* goal_id = f"{self._client_name}_{self._goal_counter}" (a second read of
\* the attribute), then the goal copy and its header
SendReadId(g) ==
    /\ send[g].pc = "read"
    /\ send' = [send EXCEPT ![g] = [stamp_goal(@, goal_counter) EXCEPT !.pc = "register"]]
    /\ UNCHANGED <<goal_counter, active_goals, handle, client_subscriptions,
                   cancel_call, as_running, as_subscriptions, as_active_goals,
                   worker, goal_chan, cancel_chan, res_chan>>
    /\ UNCHANGED <<svc_vars, fb_vars, mgr_vars, lcm_vars, ext_vars>>

\* ActionHandle.__init__
NewHandle(goal_id) ==
    [goal_id |-> goal_id, status |-> ACCEPTED, cancelled |-> FALSE,
     fut |-> [st |-> "pending", res |-> NoResult],
     feedback_callbacks |-> <<>>, observed |-> <<>>,
     got |-> [kind |-> "none", status |-> 0, cb |-> FALSE],
     cancels_published |-> 0]

\* handle = ActionHandle(...); with lock: self._active_goals[goal_id] = handle
SendRegister(g) ==
    /\ send[g].pc = "register"
    /\ handle' = [handle EXCEPT ![g] = NewHandle(send[g].id)]
    /\ active_goals' = DictPut(active_goals, send[g].id, g)
    /\ send' = [send EXCEPT ![g].pc = "subscribe"]
    /\ UNCHANGED <<goal_counter, client_subscriptions,
                   cancel_call, as_running, as_subscriptions, as_active_goals,
                   worker, goal_chan, cancel_chan, res_chan>>
    /\ UNCHANGED <<svc_vars, fb_vars, mgr_vars, lcm_vars, ext_vars>>

\* fb_sub, res_sub = subscribe(...); self._subscriptions.extend([fb_sub, res_sub])
SendSubscribe(g) ==
    /\ send[g].pc = "subscribe"
    /\ client_subscriptions' = client_subscriptions \cup
            { [kind |-> "fb", id |-> send[g].id, goal |-> g],
              [kind |-> "res", id |-> send[g].id, goal |-> g] }
    /\ send' = [send EXCEPT ![g].pc = "publish"]
    /\ UNCHANGED <<goal_counter, active_goals, handle,
                   cancel_call, as_running, as_subscriptions, as_active_goals,
                   worker, goal_chan, cancel_chan, res_chan>>
    /\ UNCHANGED <<svc_vars, fb_vars, mgr_vars, lcm_vars, ext_vars>>

\* self._lcm.publish(goal_channel, goal_copy.encode()); return handle
SendPublish(g) ==
    /\ send[g].pc = "publish"
    /\ goal_chan' = Append(goal_chan, encode(send[g].copy))
    /\ send' = [send EXCEPT ![g].pc = "done"]
    /\ UNCHANGED <<goal_counter, active_goals, handle, client_subscriptions,
                   cancel_call, as_running, as_subscriptions, as_active_goals,
                   worker, cancel_chan, res_chan>>
    /\ UNCHANGED <<svc_vars, fb_vars, mgr_vars, lcm_vars, ext_vars>>

\* the condition of cancel() without the test of the status
cancel_condition_IgnoresStatus(h) ==
    ~h.cancelled

\* ActionHandle.cancel(), the condition of its if statement
cancel_condition(h) ==
    ~h.cancelled /\ h.status \in {ACCEPTED, EXECUTING}

\* cancel() is invoked by some thread on a handle that send_goal() has
\* returned, and evaluates its condition
CancelCheck(k, g) ==
    /\ cancel_call[k].pc = "idle"
    /\ \A j \in 1..(k - 1) : cancel_call[j].pc # "idle"
    /\ send[g].pc = "done"
    /\ cancel_call' = [cancel_call EXCEPT ![k] =
            IF cancel_condition(handle[g])
                THEN [pc |-> "publish", h |-> g]
                ELSE [pc |-> "done", h |-> 0]]
    /\ UNCHANGED <<goal_counter, active_goals, send, handle, client_subscriptions,
                   as_running, as_subscriptions, as_active_goals,
                   worker, goal_chan, cancel_chan, res_chan>>
    /\ UNCHANGED <<svc_vars, fb_vars, mgr_vars, lcm_vars, ext_vars>>

\* ActionClient._cancel_goal: the ActionCancel message it builds
cancel_goal(goal_id) == [id |-> goal_id, goal_id |-> goal_id]

\* self._action_client._cancel_goal(self._action_channel, self._goal_id)
CancelPublish(k) ==
    /\ cancel_call[k].pc = "publish"
    /\ cancel_chan' = Append(cancel_chan, cancel_goal(handle[cancel_call[k].h].goal_id))
    /\ cancel_call' = [cancel_call EXCEPT ![k].pc = "set"]
    \* history: the ActionCancel messages published for the handle's goal
    /\ handle' = [handle EXCEPT ![cancel_call[k].h].cancels_published = @ + 1]
    /\ UNCHANGED <<goal_counter, active_goals, send, client_subscriptions,
                   as_running, as_subscriptions, as_active_goals,
                   worker, goal_chan, res_chan>>
    /\ UNCHANGED <<svc_vars, fb_vars, mgr_vars, lcm_vars, ext_vars>>

\* self._cancelled = True
CancelSet(k) ==
    /\ cancel_call[k].pc = "set"
    /\ handle' = [handle EXCEPT ![cancel_call[k].h].cancelled = TRUE]
    /\ cancel_call' = [cancel_call EXCEPT ![k] = [pc |-> "done", h |-> 0]]
    /\ UNCHANGED <<goal_counter, active_goals, send, client_subscriptions,
                   as_running, as_subscriptions, as_active_goals,
                   worker, goal_chan, cancel_chan, res_chan>>
    /\ UNCHANGED <<svc_vars, fb_vars, mgr_vars, lcm_vars, ext_vars>>

\* ActionHandle.get_result(timeout): the result of the Future, the
\* RuntimeError set on it, or TimeoutError while it is pending
get_result(h) ==
    IF h.fut.st = "result" THEN [kind |-> "return", status |-> h.fut.res.status]
    ELSE IF h.fut.st = "exc" THEN [kind |-> "raise", status |-> h.fut.res.status]
    ELSE [kind |-> "timeout", status |-> 0]

\* the user calls get_result on a handle that send_goal() has returned; the
\* call ends when the Future completes or when the timeout expires (got.cb
\* is history: a feedback callback was registered by then)
GetResult(g) ==
    /\ send[g].pc = "done"
    /\ handle[g].got.kind = "none"
    /\ handle' = [handle EXCEPT ![g].got =
            [kind |-> get_result(handle[g]).kind,
             status |-> get_result(handle[g]).status,
             cb |-> handle[g].feedback_callbacks # <<>>]]
    /\ UNCHANGED <<goal_counter, active_goals, send, client_subscriptions,
                   cancel_call, as_running, as_subscriptions, as_active_goals,
                   worker, goal_chan, cancel_chan, res_chan>>
    /\ UNCHANGED <<svc_vars, fb_vars, mgr_vars, lcm_vars, ext_vars>>

\* A faulty variant of _set_result that completes the Future with the
\* result whatever the status; C15 does not hold of it.
set_result_AlwaysResult(h, result, status) ==
    [h EXCEPT !.status = status,
              !.fut = IF h.fut.st # "pending" THEN h.fut
                      ELSE [st |-> "result", res |-> result]]

\* ActionHandle._set_result(result, status)
set_result(h, result, status) ==
    [h EXCEPT !.status = status,
              !.fut = IF h.fut.st # "pending" THEN h.fut
                      ELSE IF status = SUCCEEDED
                          THEN [st |-> "result", res |-> result]
                          ELSE [st |-> "exc", res |-> result]]

\* handle_result with a lookup in place of the pop: the goal stays active
handle_result_KeepsGoal(result) ==
    IF result_type # "status"
        THEN <<active_goals, handle>>
    ELSE IF result.id \in DOMAIN active_goals
        THEN LET g == active_goals[result.id]
             IN  <<active_goals,
                   [handle EXCEPT ![g] = set_result(handle[g], result, result.status)]>>
        ELSE <<active_goals, handle>>

\* handle_result: the handle a decoded result completes, if any.
\* Returns the pair <<active_goals, handle>> after the callback.  A result
\* without a status field makes result.status raise AttributeError, which
\* the callback logs.
handle_result(result) ==
    IF result_type # "status"
        THEN <<active_goals, handle>>
    ELSE IF result.id \in DOMAIN active_goals
        THEN LET g == active_goals[result.id]
             IN  <<DictPop(active_goals, result.id),
                   [handle EXCEPT ![g] = set_result(handle[g], result, result.status)]>>
        ELSE <<active_goals, handle>>

\* ------------------------------------------------------------ ActionServer
\* ActionServer.start, under self._lock: a running server logs a warning
\* and returns; otherwise subscribe the goal and the cancel channel, record
\* both subscriptions, set the flag and start the dispatch thread
ASrvStart ==
    /\ IF as_running
          THEN UNCHANGED <<as_subscriptions, lcm_subscriptions, as_running,
                           mgr_running, handler_threads, thread, instance, lcm_count>>
          ELSE /\ as_subscriptions' = as_subscriptions \cup {"goal", "cancel"}
               /\ lcm_subscriptions' = [lcm_subscriptions EXCEPT !["goal"] = @ + 1,
                                                                 !["cancel"] = @ + 1]
               /\ as_running' = TRUE
               /\ start_lcm_handler
    /\ UNCHANGED <<goal_counter, active_goals, send, handle, client_subscriptions,
                   cancel_call, as_active_goals,
                   worker, goal_chan, cancel_chan, res_chan>>
    /\ UNCHANGED <<caller, bus>>
    /\ UNCHANGED <<svc_vars, fb_vars, endpoints, usr_vars>>

\* A faulty variant of execute_action_result that ships the status the
\* handler left in its result; C14 does not hold of it.
execute_action_result_KeepsStatus(goal, o) ==
    [id |-> goal.id,
     status |-> IF o.kind = "ok" THEN o.status ELSE ABORTED,
     message |-> IF o.kind = "ok" THEN "" ELSE o.text,
     body |-> goal.body]

\* execute_action, lines 515-536: the result after the try/except, stamped
execute_action_result(goal, o) ==
    [id |-> goal.id,
     status |-> IF o.kind = "ok" THEN SUCCEEDED ELSE ABORTED,
     message |-> IF o.kind = "ok" THEN "" ELSE o.text,
     body |-> goal.body]

\* send_feedback(feedback), called by the handler in the worker thread: the
\* feedback is stamped with the goal id and published on
\* "<action>/fb/<goal_id>" (seq numbers the handler's feedbacks; goal is
\* history: the goal whose handler sent it)
send_feedback(g) ==
    [id |-> worker[g].id, seq |-> worker[g].fb_sent + 1, goal |-> g]

\* the handler of goal g sends one more feedback, of at most n
WorkerFeedback(g, n) ==
    /\ worker[g].st = "running"
    /\ worker[g].fb_sent < n
    /\ fb_chan' = [fb_chan EXCEPT ![worker[g].id] = Append(@, send_feedback(g))]
    /\ worker' = [worker EXCEPT ![g].fb_sent = @ + 1]
    /\ UNCHANGED <<goal_counter, active_goals, send, handle, client_subscriptions,
                   cancel_call, as_running, as_subscriptions, as_active_goals,
                   goal_chan, cancel_chan, res_chan, result_type>>
    /\ UNCHANGED <<svc_vars, mgr_vars, lcm_vars, ext_vars>>

\* execute_action raises outside its try block, so that the thread dies
\* before publishing: result.status of a result type without a status
\* field (line 533), or result.encode() (line 540)
execute_action_dies(o) ==
    result_type # "status" \/ o.kind = "unencodable"

\* execute_action in the goal's worker thread: run the handler to its end
\* and publish the result on "<action>/res/<goal_id>" (outcome and
\* published are history)
WorkerPublish(g) ==
    /\ worker[g].st = "running"
    /\ \E o \in ActionOutcomes :
         IF execute_action_dies(o)
            THEN /\ worker' = [worker EXCEPT ![g].st = "dead", ![g].outcome = o]
                 /\ UNCHANGED res_chan
            ELSE LET result == execute_action_result([id |-> worker[g].id, body |-> g], o)
                 IN  /\ res_chan' = [res_chan EXCEPT ![worker[g].id] = Append(@, result)]
                     /\ worker' = [worker EXCEPT ![g].st = "cleanup", ![g].outcome = o,
                                                 ![g].published = result]
    /\ UNCHANGED <<goal_counter, active_goals, send, handle, client_subscriptions,
                   cancel_call, as_running, as_subscriptions, as_active_goals,
                   goal_chan, cancel_chan>>
    /\ UNCHANGED <<svc_vars, fb_vars, mgr_vars, lcm_vars, ext_vars>>

\* execute_action: with self._lock: self._active_goals.pop(goal_id, None)
WorkerCleanup(g) ==
    /\ worker[g].st = "cleanup"
    /\ as_active_goals' = DictPop(as_active_goals, worker[g].id)
    /\ worker' = [worker EXCEPT ![g].st = "dead"]
    /\ UNCHANGED <<goal_counter, active_goals, send, handle, client_subscriptions,
                   cancel_call, as_running, as_subscriptions,
                   goal_chan, cancel_chan, res_chan>>
    /\ UNCHANGED <<svc_vars, fb_vars, mgr_vars, lcm_vars, ext_vars>>

\* ------------------------------------------------------------ dispatch
\* _handle_goal with the handler run in the dispatch thread itself: the
\* callback returns only when the handler has ended and its result is out
DeliverGoal_WaitsForHandler ==
    /\ goal_chan # <<>>
    /\ goal_chan' = Tail(goal_chan)
    /\ IF "goal" \in as_subscriptions
          THEN LET goal == Head(goal_chan)
                   result == execute_action_result(goal, [kind |-> "ok", status |-> 0, text |-> ""])
               IN  /\ as_active_goals' = DictPut(as_active_goals, goal.id, goal.body)
                   /\ worker' = [worker EXCEPT ![goal.body].st = "cleanup",
                                               ![goal.body].id = goal.id,
                                               ![goal.body].published = result]
                   /\ res_chan' = [res_chan EXCEPT ![goal.id] = Append(@, result)]
          ELSE UNCHANGED <<as_active_goals, worker, res_chan>>
    /\ UNCHANGED <<goal_counter, active_goals, send, handle, client_subscriptions,
                   cancel_call, as_running, as_subscriptions, cancel_chan>>
    /\ UNCHANGED <<svc_vars, fb_vars, mgr_vars, lcm_vars, ext_vars>>

\* _handle_goal: register the worker thread under the goal id, start it
DeliverGoal ==
    /\ goal_chan # <<>>
    /\ goal_chan' = Tail(goal_chan)
    /\ IF "goal" \in as_subscriptions
          THEN LET goal == Head(goal_chan)
               IN  /\ as_active_goals' = DictPut(as_active_goals, goal.id, goal.body)
                   /\ worker' = [worker EXCEPT ![goal.body].st = "running",
                                               ![goal.body].id = goal.id]
          ELSE UNCHANGED <<as_active_goals, worker>>
    /\ UNCHANGED <<goal_counter, active_goals, send, handle, client_subscriptions,
                   cancel_call, as_running, as_subscriptions,
                   cancel_chan, res_chan>>
    /\ UNCHANGED <<svc_vars, fb_vars, mgr_vars, lcm_vars, ext_vars>>

\* _handle_cancel: the goal map after an ActionCancel for goal_id
handle_cancel(goal_id) ==
    IF goal_id \in DOMAIN as_active_goals
        THEN DictPop(as_active_goals, goal_id)
        ELSE as_active_goals

DeliverCancel ==
    /\ cancel_chan # <<>>
    /\ cancel_chan' = Tail(cancel_chan)
    /\ IF "cancel" \in as_subscriptions
          THEN LET goal_id == Head(cancel_chan).goal_id
               IN  /\ as_active_goals' = handle_cancel(goal_id)
                   \* history: the cancel found the goal active and its
                   \* handler still executing
                   /\ worker' = IF goal_id \in DOMAIN as_active_goals
                        THEN IF worker[as_active_goals[goal_id]].st = "running"
                                THEN [worker EXCEPT ![as_active_goals[goal_id]].cancel_received = TRUE]
                                ELSE worker
                        ELSE worker
          ELSE UNCHANGED <<as_active_goals, worker>>
    /\ UNCHANGED <<goal_counter, active_goals, send, handle, client_subscriptions,
                   cancel_call, as_running, as_subscriptions,
                   goal_chan, res_chan>>
    /\ UNCHANGED <<svc_vars, fb_vars, mgr_vars, lcm_vars, ext_vars>>

\* DeliverResult with a handle_result that also unsubscribes the channels
\* of the goal it completes
DeliverResult_ReleasesSubscriptions(i) ==
    /\ res_chan[i] # <<>>
    /\ \A j \in 1..Len(fb_chan[i]) : fb_chan[i][j].goal # Head(res_chan[i]).body
    /\ res_chan' = [res_chan EXCEPT ![i] = Tail(@)]
    /\ IF \E s \in client_subscriptions : s.kind = "res" /\ s.id = i
          THEN /\ active_goals' = handle_result(Head(res_chan[i]))[1]
               /\ handle' = handle_result(Head(res_chan[i]))[2]
               /\ client_subscriptions' =
                     IF Head(res_chan[i]).id \in DOMAIN active_goals
                        THEN {s \in client_subscriptions : s.id # i}
                        ELSE client_subscriptions
          ELSE UNCHANGED <<active_goals, handle, client_subscriptions>>
    /\ UNCHANGED <<goal_counter, send,
                   cancel_call, as_running, as_subscriptions, as_active_goals,
                   worker, goal_chan, cancel_chan>>
    /\ UNCHANGED <<svc_vars, fb_vars, mgr_vars, lcm_vars, ext_vars>>

\* The dispatch thread takes the next message of a result channel and
\* invokes every handle_result subscribed to it.  All of them run the same
\* code on the same map, so the first one does the work.  The bus keeps
\* the order of the messages one thread publishes: the feedbacks a worker
\* sent are dispatched before its result.
DeliverResult(i) ==
    /\ res_chan[i] # <<>>
    /\ \A j \in 1..Len(fb_chan[i]) : fb_chan[i][j].goal # Head(res_chan[i]).body
    /\ res_chan' = [res_chan EXCEPT ![i] = Tail(@)]
    /\ IF \E s \in client_subscriptions : s.kind = "res" /\ s.id = i
          THEN /\ active_goals' = handle_result(Head(res_chan[i]))[1]
               /\ handle' = handle_result(Head(res_chan[i]))[2]
          ELSE UNCHANGED <<active_goals, handle>>
    /\ UNCHANGED <<goal_counter, send, client_subscriptions,
                   cancel_call, as_running, as_subscriptions, as_active_goals,
                   worker, goal_chan, cancel_chan>>
    /\ UNCHANGED <<svc_vars, fb_vars, mgr_vars, lcm_vars, ext_vars>>

\* the ways a user's feedback callback can end
CallbackKinds == {"returns", "raises"}

\* handle.add_feedback_callback(callback) on a handle send_goal() has
\* returned: the callback is appended to the handle's list (of at most n
\* callbacks, each of one of the given kinds)
AddFeedbackCallback(g, n, kinds) ==
    /\ send[g].pc = "done"
    /\ Len(handle[g].feedback_callbacks) < n
    /\ \E c \in kinds :
         handle' = [handle EXCEPT ![g].feedback_callbacks = Append(@, c)]
    /\ UNCHANGED <<goal_counter, active_goals, send, client_subscriptions,
                   cancel_call, as_running, as_subscriptions, as_active_goals,
                   worker, goal_chan, cancel_chan, res_chan>>
    /\ UNCHANGED <<svc_vars, fb_vars, mgr_vars, lcm_vars, ext_vars>>

\* one invocation callback(feedback) of the j-th callback of a handle, as
\* the history records it
Invocation(feedback, j) ==
    [id |-> feedback.id, seq |-> feedback.seq, goal |-> feedback.goal, cb |-> j]

\* _set_feedback without the try/except around the call: the exception of
\* the first callback that raises ends the loop
set_feedback_Unprotected(h, feedback) ==
    LET raising == {j \in 1..Len(h.feedback_callbacks) : h.feedback_callbacks[j] = "raises"}
        last == IF raising = {} THEN Len(h.feedback_callbacks)
                ELSE CHOOSE j \in raising : \A m \in raising : j <= m
    IN  [h EXCEPT !.observed = @ \o [j \in 1..last |-> Invocation(feedback, j)]]

\* the loop of _set_feedback from the j-th callback on: callback(feedback)
\* is called inside try/except Exception, so that after a callback that
\* raises (the error is logged) the loop goes on as after one that returns
RECURSIVE invoke_from(_, _, _, _)
invoke_from(observed, callbacks, feedback, j) ==
    IF j > Len(callbacks) THEN observed
    ELSE invoke_from(Append(observed, Invocation(feedback, j)),
                     callbacks, feedback, j + 1)

\* ActionHandle._set_feedback: every registered callback is called, in the
\* order of the list (observed is history: the invocations made)
set_feedback(h, feedback) ==
    [h EXCEPT !.observed = invoke_from(@, h.feedback_callbacks, feedback, 1)]

\* handle_feedback: the handles after the callback has run for a feedback
handle_feedback(hs, feedback) ==
    IF feedback.id \in DOMAIN active_goals
        THEN LET g == active_goals[feedback.id]
             IN  [hs EXCEPT ![g] = set_feedback(hs[g], feedback)]
        ELSE hs

\* the handles after k subscribed handle_feedback callbacks have run
RECURSIVE handle_feedback_times(_, _, _)
handle_feedback_times(hs, feedback, k) ==
    IF k = 0 THEN hs
    ELSE handle_feedback_times(handle_feedback(hs, feedback), feedback, k - 1)

\* The dispatch thread takes the next message of a feedback channel and
\* invokes every handle_feedback subscribed to it.
DeliverFeedback(i) ==
    /\ fb_chan[i] # <<>>
    /\ fb_chan' = [fb_chan EXCEPT ![i] = Tail(@)]
    /\ handle' = handle_feedback_times(handle, Head(fb_chan[i]),
            Cardinality({s \in client_subscriptions : s.kind = "fb" /\ s.id = i}))
    /\ UNCHANGED <<goal_counter, active_goals, send, client_subscriptions,
                   cancel_call, as_running, as_subscriptions, as_active_goals,
                   worker, goal_chan, cancel_chan, res_chan, result_type>>
    /\ UNCHANGED <<svc_vars, mgr_vars, lcm_vars, ext_vars>>

\* ------------------------------------------------------------ teardown
\* A variant of ClientStop that keeps the active goals and their result
\* subscriptions, releasing the rest.
ClientStop_KeepsPendingGoals ==
    /\ client_lock = "free"
    /\ client_subscriptions' = {s \in client_subscriptions :
                                   s.kind = "res" /\ s.id \in DOMAIN active_goals}
    /\ UNCHANGED <<goal_counter, active_goals, send, handle,
                   cancel_call, as_running, as_subscriptions, as_active_goals,
                   worker, goal_chan, cancel_chan, res_chan>>
    /\ UNCHANGED <<svc_vars, fb_vars, mgr_vars, lcm_vars, ext_vars>>

\* A faulty variant of ClientStop that forgets the result subscriptions.
ClientStop_KeepsResultSubscriptions ==
    /\ client_lock = "free"
    /\ client_subscriptions' = {s \in client_subscriptions : s.kind = "res"}
    /\ active_goals' = <<>>
    /\ UNCHANGED <<goal_counter, send, handle,
                   cancel_call, as_running, as_subscriptions, as_active_goals,
                   worker, goal_chan, cancel_chan, res_chan>>
    /\ UNCHANGED <<svc_vars, fb_vars, mgr_vars, lcm_vars, ext_vars>>

\* ActionClient.stop, under self._lock: unsubscribe every subscription of
\* self._subscriptions, clear the list and the goal map
ClientStop ==
    /\ client_lock = "free"
    /\ client_subscriptions' = {}
    /\ active_goals' = <<>>
    /\ UNCHANGED <<goal_counter, send, handle,
                   cancel_call, as_running, as_subscriptions, as_active_goals,
                   worker, goal_chan, cancel_chan, res_chan>>
    /\ UNCHANGED <<svc_vars, fb_vars, mgr_vars, lcm_vars, ext_vars>>

\* ActionServer.stop, under self._lock: unsubscribe every subscription,
\* clear the list, join each worker thread for at most a second, clear the
\* goal map, clear the flag.  A worker needs the same lock for its cleanup,
\* so it is where it was when the joins are over.
ASrvStop ==
    /\ IF as_running
          THEN /\ as_subscriptions' = {}
               /\ lcm_subscriptions' = [lcm_subscriptions EXCEPT !["goal"] = 0,
                                                                 !["cancel"] = 0]
               /\ as_active_goals' = <<>>
               /\ as_running' = FALSE
          ELSE UNCHANGED <<as_subscriptions, lcm_subscriptions, as_active_goals,
                           as_running>>
    /\ UNCHANGED <<goal_counter, active_goals, send, handle, client_subscriptions,
                   cancel_call, worker, goal_chan, cancel_chan, res_chan>>
    /\ UNCHANGED <<svc_vars, fb_vars, mgr_vars, lcm_vars, usr_vars>>

\* ------------------------------------------------------------ topics
\* TopicSubscriber.subscribe, called by __init__ and by the user, under
\* self._lock
TopicSubscribe ==
    /\ ~topic.subscribed
    /\ topic' = [topic EXCEPT !.subscribed = TRUE, !.subscription = TRUE]
    /\ start_lcm_handler
    /\ UNCHANGED <<caller, bus>>
    /\ UNCHANGED <<svc_vars, act_vars, fb_vars, endpoints,
                   client_lock, callback, topic_chan, dispatching, lcm_subscriptions>>

\* TopicSubscriber.unsubscribe, under self._lock
TopicUnsubscribe ==
    /\ topic.subscribed
    /\ topic' = [topic EXCEPT !.subscribed = FALSE, !.subscription = FALSE]
    /\ UNCHANGED <<svc_vars, act_vars, fb_vars, mgr_vars, lcm_vars,
                   client_lock, callback, topic_chan, dispatching, lcm_subscriptions>>

\* TopicPublisher.publish(message) with an instance of some class: the
\* validation raises TypeError, or the encoded message is published
TopicPublish ==
    /\ Len(topic_chan) + Len(topic.received) + topic.rejected < MaxMsgs
    /\ \E ty \in InstanceTypes :
         IF validate_message_instance(ty)
            THEN /\ topic_chan' = Append(topic_chan, encode(UserMessage(1)))
                 /\ UNCHANGED topic
            ELSE /\ topic' = [topic EXCEPT !.rejected = @ + 1]
                 /\ UNCHANGED topic_chan
    /\ UNCHANGED <<svc_vars, act_vars, fb_vars, mgr_vars, lcm_vars,
                   client_lock, callback, dispatching, lcm_subscriptions>>

\* The dispatch thread takes the next message of the topic's channel and
\* calls _handle_message if the subscriber is subscribed, which decodes
\* the message and gives it to the user's callback.
DeliverTopic ==
    /\ topic_chan # <<>>
    /\ topic_chan' = Tail(topic_chan)
    /\ topic' = IF topic.subscription
                   THEN [topic EXCEPT !.received = Append(@, Head(topic_chan))]
                   ELSE topic
    /\ UNCHANGED <<svc_vars, act_vars, fb_vars, mgr_vars, lcm_vars,
                   client_lock, callback, dispatching, lcm_subscriptions>>

\* ------------------------------------------- handle_feedback, step by step
\* handle_feedback in the dispatch thread, up to the call of the user's
\* callback: decode, take self._lock (a threading.Lock), look the id up and
\* enter _set_feedback, which calls the callback registered on the handle.
\* Without a subscription the message is dropped; without an entry or a
\* callback the lock is released again at once.
FeedbackEnter(i) ==
    /\ fb_chan[i] # <<>>
    /\ callback.st = "none"
    /\ client_lock = "free"
    /\ fb_chan' = [fb_chan EXCEPT ![i] = Tail(@)]
    /\ LET feedback == Head(fb_chan[i])
           subscribed == \E s \in client_subscriptions : s.kind = "fb" /\ s.id = i
           g == IF feedback.id \in DOMAIN active_goals THEN active_goals[feedback.id] ELSE 0
       IN  IF subscribed /\ g # 0 /\ handle[g].feedback_callbacks # <<>>
              THEN /\ client_lock' = "dispatch"
                   /\ callback' = [st |-> "running", goal |-> g]
                   /\ handle' = [handle EXCEPT ![g] = set_feedback(@, feedback)]
              ELSE UNCHANGED <<client_lock, callback, handle>>
    /\ UNCHANGED <<goal_counter, active_goals, send, client_subscriptions,
                   cancel_call, as_running, as_subscriptions, as_active_goals,
                   worker, goal_chan, cancel_chan, res_chan, result_type>>
    /\ UNCHANGED <<svc_vars, mgr_vars, lcm_vars, topic, topic_chan, dispatching, lcm_subscriptions>>

\* the user's callback returns; _set_feedback returns and handle_feedback
\* leaves its with block
CallbackReturn ==
    /\ callback.st = "running"
    /\ callback' = [st |-> "none", goal |-> 0]
    /\ client_lock' = "free"
    /\ UNCHANGED <<svc_vars, act_vars, fb_vars, mgr_vars, lcm_vars,
                   topic, topic_chan, dispatching, lcm_subscriptions>>

\* the user's callback calls stop() on the ActionClient: its first
\* statement is "with self._lock", and a threading.Lock that is held cannot
\* be acquired again, by any thread
CallbackCallsStop ==
    /\ callback.st = "running"
    /\ client_lock # "free"
    /\ callback' = [callback EXCEPT !.st = "blocked"]
    /\ UNCHANGED client_lock
    /\ UNCHANGED <<svc_vars, act_vars, fb_vars, mgr_vars, lcm_vars,
                   topic, topic_chan, dispatching, lcm_subscriptions>>

\* terminal statuses of the protocol
TerminalStatuses == {SUCCEEDED, ABORTED, CANCELED}

\* An ActionServer of another process answers the next goal with a result
\* of some terminal status, without feedback.
PeerServe ==
    /\ goal_chan # <<>>
    /\ ~as_running
    /\ goal_chan' = Tail(goal_chan)
    /\ \E st \in TerminalStatuses :
         res_chan' = [res_chan EXCEPT ![Head(goal_chan).id] =
             Append(@, [id |-> Head(goal_chan).id, status |-> st,
                        message |-> "", body |-> Head(goal_chan).body])]
    /\ UNCHANGED <<goal_counter, active_goals, send, handle, client_subscriptions,
                   cancel_call, as_running, as_subscriptions, as_active_goals,
                   worker, cancel_chan>>
    /\ UNCHANGED <<svc_vars, fb_vars, mgr_vars, lcm_vars, ext_vars>>

\* the first goal sent
FirstGoal == {1}

\* several goals, none of them cancelled
ActNext ==
    \/ \E g \in GoalNos : SendLoadCounter(g)
    \/ \E g \in GoalNos : SendStoreCounter(g)
    \/ \E g \in GoalNos : SendReadId(g)
    \/ \E g \in GoalNos : SendRegister(g)
    \/ \E g \in GoalNos : SendSubscribe(g)
    \/ \E g \in GoalNos : SendPublish(g)
    \/ \E g \in GoalNos : GetResult(g)
    \/ ASrvStart
    \/ \E g \in GoalNos : WorkerPublish(g)
    \/ \E g \in GoalNos : WorkerCleanup(g)
    \/ DeliverGoal
    \/ \E i \in GoalIds : DeliverResult(i)

\* one goal whose handler sends feedback, and a client that registers a
\* feedback callback on the handle and waits for the result
FeedbackNext ==
    \/ \E g \in FirstGoal : SendLoadCounter(g)
    \/ \E g \in FirstGoal : SendStoreCounter(g)
    \/ \E g \in FirstGoal : SendReadId(g)
    \/ \E g \in FirstGoal : SendRegister(g)
    \/ \E g \in FirstGoal : SendSubscribe(g)
    \/ \E g \in FirstGoal : SendPublish(g)
    \/ \E g \in FirstGoal : AddFeedbackCallback(g, 1, {"returns"})
    \/ \E g \in FirstGoal : GetResult(g)
    \/ ASrvStart
    \/ \E g \in FirstGoal : WorkerFeedback(g, MaxFeedback)
    \/ \E g \in FirstGoal : WorkerPublish(g)
    \/ \E g \in FirstGoal : WorkerCleanup(g)
    \/ DeliverGoal
    \/ \E i \in GoalIds : DeliverFeedback(i)
    \/ \E i \in GoalIds : DeliverResult(i)

\* several goals whose handlers send one feedback each, and a client that
\* registers feedback callbacks on the handles
RoutingNext ==
    \/ \E g \in GoalNos : SendLoadCounter(g)
    \/ \E g \in GoalNos : SendStoreCounter(g)
    \/ \E g \in GoalNos : SendReadId(g)
    \/ \E g \in GoalNos : SendRegister(g)
    \/ \E g \in GoalNos : SendSubscribe(g)
    \/ \E g \in GoalNos : SendPublish(g)
    \/ \E g \in GoalNos : AddFeedbackCallback(g, 1, {"returns"})
    \/ ASrvStart
    \/ \E g \in GoalNos : WorkerFeedback(g, 1)
    \/ \E g \in GoalNos : WorkerPublish(g)
    \/ \E g \in GoalNos : WorkerCleanup(g)
    \/ DeliverGoal
    \/ \E i \in GoalIds : DeliverFeedback(i)
    \/ \E i \in GoalIds : DeliverResult(i)

\* send_goal: "with self._lock" is entered when the lock is free
LockedRegister(g) ==
    /\ client_lock = "free"
    /\ SendRegister(g)

\* the dispatch thread runs the bus callbacks one after the other:
\* _handle_goal is called when no feedback callback is running
DispatchGoal ==
    /\ callback.st = "none"
    /\ DeliverGoal

\* handle_result is called when no feedback callback is running (which is
\* when the lock is free)
DispatchResult(i) ==
    /\ callback.st = "none"
    /\ DeliverResult(i)

\* several goals whose handlers send one feedback each to callbacks that
\* return or call back into the client
LockNext ==
    \/ \E g \in GoalNos : SendLoadCounter(g)
    \/ \E g \in GoalNos : SendStoreCounter(g)
    \/ \E g \in GoalNos : SendReadId(g)
    \/ \E g \in GoalNos : LockedRegister(g)
    \/ \E g \in GoalNos : SendSubscribe(g)
    \/ \E g \in GoalNos : SendPublish(g)
    \/ \E g \in GoalNos : AddFeedbackCallback(g, 1, {"returns"})
    \/ ASrvStart
    \/ \E g \in GoalNos : WorkerFeedback(g, 1)
    \/ \E g \in GoalNos : WorkerPublish(g)
    \/ \E g \in GoalNos : WorkerCleanup(g)
    \/ DispatchGoal
    \/ \E i \in GoalIds : FeedbackEnter(i)
    \/ CallbackReturn
    \/ CallbackCallsStop
    \/ \E i \in GoalIds : DispatchResult(i)

\* endpoints that are started, used and torn down, in any order
TeardownNext ==
    \/ SrvStart
    \/ SrvStop
    \/ TopicSubscribe
    \/ TopicUnsubscribe
    \/ \E g \in GoalNos : SendLoadCounter(g)
    \/ \E g \in GoalNos : SendStoreCounter(g)
    \/ \E g \in GoalNos : SendReadId(g)
    \/ \E g \in GoalNos : SendRegister(g)
    \/ \E g \in GoalNos : SendSubscribe(g)
    \/ \E g \in GoalNos : SendPublish(g)
    \/ ClientStop
    \/ ASrvStart
    \/ ASrvStop
    \/ \E g \in GoalNos : WorkerPublish(g)
    \/ \E g \in GoalNos : WorkerCleanup(g)
    \/ DeliverGoal
    \/ \E i \in GoalIds : DeliverResult(i)

\* a client whose goals are served by an ActionServer of another process
\* Goals with feedback and several feedback callbacks a handle, some of which
\* raise; no results.
CallbackNext ==
    \/ \E g \in GoalNos : SendLoadCounter(g)
    \/ \E g \in GoalNos : SendStoreCounter(g)
    \/ \E g \in GoalNos : SendReadId(g)
    \/ \E g \in GoalNos : SendRegister(g)
    \/ \E g \in GoalNos : SendSubscribe(g)
    \/ \E g \in GoalNos : SendPublish(g)
    \/ \E g \in GoalNos : AddFeedbackCallback(g, MaxCallbacks, CallbackKinds)
    \/ ASrvStart
    \/ \E g \in GoalNos : WorkerFeedback(g, MaxFeedback)
    \/ DeliverGoal
    \/ \E i \in GoalIds : DeliverFeedback(i)

\* Goals answered by a server of another process, with stop() of the client
\* at any moment and get_result on the handles.
AbandonNext ==
    \/ \E g \in GoalNos : SendLoadCounter(g)
    \/ \E g \in GoalNos : SendStoreCounter(g)
    \/ \E g \in GoalNos : SendReadId(g)
    \/ \E g \in GoalNos : SendRegister(g)
    \/ \E g \in GoalNos : SendSubscribe(g)
    \/ \E g \in GoalNos : SendPublish(g)
    \/ \E g \in GoalNos : GetResult(g)
    \/ ClientStop
    \/ PeerServe
    \/ \E i \in GoalIds : DeliverResult(i)

ResultNext ==
    \/ \E g \in GoalNos : SendLoadCounter(g)
    \/ \E g \in GoalNos : SendStoreCounter(g)
    \/ \E g \in GoalNos : SendReadId(g)
    \/ \E g \in GoalNos : SendRegister(g)
    \/ \E g \in GoalNos : SendSubscribe(g)
    \/ \E g \in GoalNos : SendPublish(g)
    \/ \E g \in GoalNos : GetResult(g)
    \/ PeerServe
    \/ \E i \in GoalIds : DeliverResult(i)

\* one goal, and threads that invoke cancel() on its handle
CancelNext ==
    \/ \E g \in FirstGoal : SendLoadCounter(g)
    \/ \E g \in FirstGoal : SendStoreCounter(g)
    \/ \E g \in FirstGoal : SendReadId(g)
    \/ \E g \in FirstGoal : SendRegister(g)
    \/ \E g \in FirstGoal : SendSubscribe(g)
    \/ \E g \in FirstGoal : SendPublish(g)
    \/ \E k \in CancelNos, g \in FirstGoal : CancelCheck(k, g)
    \/ \E k \in CancelNos : CancelPublish(k)
    \/ \E k \in CancelNos : CancelSet(k)
    \/ \E g \in FirstGoal : GetResult(g)
    \/ ASrvStart
    \/ \E g \in FirstGoal : WorkerPublish(g)
    \/ \E g \in FirstGoal : WorkerCleanup(g)
    \/ DeliverGoal
    \/ DeliverCancel
    \/ \E i \in GoalIds : DeliverResult(i)

\* ------------------------------------------------------------ LCMManager
\* start_lcm_handler() called directly
StartHandlerThread ==
    /\ start_lcm_handler
    /\ UNCHANGED <<caller, bus>>
    /\ UNCHANGED <<svc_vars, act_vars, fb_vars, endpoints, ext_vars>>

\* What thread.join(timeout=1.0) can leave of thread t: a thread at the top
\* of the loop or waiting in handle_timeout(100) sees the cleared flag and
\* terminates within the timeout; a thread inside a callback terminates in
\* time if the callback returns in time, and otherwise outlives the join.
AfterJoin(t) ==
    IF thread[t] \in {"check", "handle"} THEN {"dead"}
    ELSE IF thread[t] = "callback" THEN {"dead", "callback"}
    ELSE {thread[t]}

\* stop_handler_threads, under self._handler_lock
stop_handler_threads ==
    IF mgr_running
        THEN /\ mgr_running' = FALSE
             /\ thread' \in {f \in [ThreadNos -> {"none", "check", "handle", "callback", "dead"}] :
                     \A t \in ThreadNos :
                         f[t] \in (IF t \in handler_threads THEN AfterJoin(t) ELSE {thread[t]})}
             /\ handler_threads' = {}
        ELSE UNCHANGED <<mgr_running, thread, handler_threads>>

\* stop_lcm_handler() called directly
StopHandlerThreads ==
    /\ stop_handler_threads
    /\ UNCHANGED <<caller, bus>>
    /\ UNCHANGED <<svc_vars, act_vars, fb_vars, lcm_vars, ext_vars>>

\* the callbacks that endpoints subscribe on the bus handle:
\* ServiceServer._handle_request, TopicSubscriber._handle_message, and the
\* handle_feedback closure of ActionClient.send_goal
Callbacks == {"request", "topic", "feedback"}

\* what can fail while a callback processes a message: decoding the
\* payload, or the user's code (service handler, topic callback, feedback
\* callback)
Faults == {"none", "decode", "user"}

\* the failures that happen inside a try block of the callback whose except
\* clause catches Exception.  _handle_request: decode at 336 in the try of
\* 334/367, the handler at 340 in the try of 339/349.  _handle_message:
\* decode at 184 and the callback at 187 in the try of 182/191.
\* handle_feedback: decode at 291 in the try of 290/295, the callback at 161
\* in the try of 160/162.
Guarded(cb) ==
    CASE cb = "request" -> {"decode", "user"}
      [] cb = "topic" -> {"decode", "user"}
      [] cb = "feedback" -> {"decode", "user"}
      [] OTHER -> {}

\* A faulty variant of callback_raises in which the user's code is called
\* outside the try blocks.
callback_raises_UserUnguarded(cb, fault) ==
    fault = "user"

\* whether the callback ends by raising into handle_timeout
callback_raises(cb, fault) ==
    fault # "none" /\ fault \notin Guarded(cb)

\* ServiceClient.__init__ / ActionClient.__init__ with a client_name of
\* length L: the name is checked first, then get_lcm() fetches the handle
\* of the singleton, creating the singleton if there is none
Construct(e, L) ==
    /\ endpoints[e].st = "none"
    /\ \A x \in 1..(e - 1) : endpoints[x].st # "none"
    /\ IF client_name_rejected(L)
          THEN /\ endpoints' = [endpoints EXCEPT ![e] =
                      [st |-> "error", arg |-> L, name_len |-> 0, lcm |-> 0]]
               /\ UNCHANGED <<instance, lcm_count>>
          ELSE /\ get_instance
               /\ endpoints' = [endpoints EXCEPT ![e] =
                      [st |-> "ok", arg |-> L, name_len |-> client_name_len(L),
                       lcm |-> instance']]
    /\ UNCHANGED <<svc_vars, act_vars, fb_vars, mgr_vars, ext_vars>>

\* LCMManager.shutdown(), a public method (also registered with atexit):
\* stop the dispatch threads, reset the singleton
Shutdown ==
    /\ instance # 0
    /\ lcm_count < MaxHandles
    /\ stop_handler_threads
    /\ instance' = 0
    /\ UNCHANGED <<lcm_count, endpoints, caller, bus>>
    /\ UNCHANGED <<svc_vars, act_vars, fb_vars, ext_vars>>

\* _handle_loop: while self._running
LoopCheck(t) ==
    /\ thread[t] = "check"
    /\ thread' = [thread EXCEPT ![t] = IF mgr_running THEN "handle" ELSE "dead"]
    /\ UNCHANGED <<mgr_running, handler_threads, caller, bus>>
    /\ UNCHANGED <<svc_vars, act_vars, fb_vars, lcm_vars, ext_vars>>

\* _handle_loop: self._lcm.handle_timeout(100) takes a message and calls
\* the callbacks subscribed to its channel
LoopDispatch(t) ==
    /\ thread[t] = "handle"
    /\ bus > 0
    /\ bus' = bus - 1
    /\ thread' = [thread EXCEPT ![t] = "callback"]
    /\ \E cb \in Callbacks, f \in Faults :
         dispatching' = [dispatching EXCEPT ![t].cb = cb, ![t].fault = f]
    /\ UNCHANGED <<mgr_running, handler_threads, caller>>
    /\ UNCHANGED <<svc_vars, act_vars, fb_vars, lcm_vars,
                   client_lock, callback, topic, topic_chan,
                   lcm_subscriptions>>

\* _handle_loop: self._lcm.handle_timeout(100) returns without a message
LoopTimeout(t) ==
    /\ thread[t] = "handle"
    /\ bus = 0
    /\ thread' = [thread EXCEPT ![t] = "check"]
    /\ UNCHANGED <<mgr_running, handler_threads, caller, bus>>
    /\ UNCHANGED <<svc_vars, act_vars, fb_vars, lcm_vars, ext_vars>>

\* _handle_loop: self._lcm.handle_timeout(100) raises (an I/O error of the
\* bus, or an exception that a callback subscribed on the shared handle let
\* escape); the except clause logs and breaks, and the thread terminates
\* with self._running still set
LoopDrainRaises(t) ==
    /\ thread[t] = "handle"
    /\ thread' = [thread EXCEPT ![t] = "dead"]
    /\ UNCHANGED <<mgr_running, handler_threads, caller, bus>>
    /\ UNCHANGED <<svc_vars, act_vars, fb_vars, lcm_vars, ext_vars>>

\* the callback is over.  If it returned, handle_timeout returns to the
\* loop; if it raised, handle_timeout raises, and the loop's except clause
\* logs and breaks: the thread terminates, with self._running still set
LoopCallbackReturn(t) ==
    /\ thread[t] = "callback"
    /\ thread' = [thread EXCEPT ![t] =
            IF callback_raises(dispatching[t].cb, dispatching[t].fault)
               THEN "dead" ELSE "check"]
    /\ dispatching' = [dispatching EXCEPT ![t] =
            [cb |-> "none", fault |-> "none",
             survived |-> @.survived \/ @.fault # "none"]]
    /\ UNCHANGED <<mgr_running, handler_threads, caller, bus>>
    /\ UNCHANGED <<svc_vars, act_vars, fb_vars, lcm_vars,
                   client_lock, callback, topic, topic_chan,
                   lcm_subscriptions>>

\* a message on a subscribed channel reaches the shared bus handle
BusReceive ==
    /\ bus < MaxMsgs
    /\ bus' = bus + 1
    /\ UNCHANGED <<mgr_running, handler_threads, thread, caller>>
    /\ UNCHANGED <<svc_vars, act_vars, fb_vars, lcm_vars, ext_vars>>

\* ServiceServer.handle_once(timeout_ms) called by a user thread: start the
\* server if it is not running, then enter self._lcm.handle_timeout
HandleOnceBegin(u) ==
    /\ caller[u] = "idle"
    /\ IF srv_running
          THEN UNCHANGED <<srv_running, srv_subscription, lcm_subscriptions,
                           mgr_running, handler_threads, thread, instance, lcm_count>>
          ELSE /\ srv_subscription' = TRUE
               /\ lcm_subscriptions' = [lcm_subscriptions EXCEPT !["req"] = @ + 1]
               /\ srv_running' = TRUE
               /\ start_lcm_handler
    /\ caller' = [caller EXCEPT ![u] = "handle"]
    /\ UNCHANGED <<request_counter, responses, call, subscriptions,
                   srv_log, req_chan, rsp_chan, bus>>
    /\ UNCHANGED <<act_vars, fb_vars, endpoints, usr_vars>>

\* handle_once: handle_timeout takes a message and calls the callbacks
\* subscribed to its channel, in the user thread
HandleOnceDispatch(u) ==
    /\ caller[u] = "handle"
    /\ bus > 0
    /\ bus' = bus - 1
    /\ caller' = [caller EXCEPT ![u] = "callback"]
    /\ UNCHANGED <<mgr_running, handler_threads, thread>>
    /\ UNCHANGED <<svc_vars, act_vars, fb_vars, lcm_vars, ext_vars>>

\* handle_once returns: no message within timeout_ms, or the callbacks
\* have returned
HandleOnceReturn(u) ==
    /\ \/ caller[u] = "handle" /\ bus = 0
       \/ caller[u] = "callback"
    /\ caller' = [caller EXCEPT ![u] = "idle"]
    /\ UNCHANGED <<mgr_running, handler_threads, thread, bus>>
    /\ UNCHANGED <<svc_vars, act_vars, fb_vars, lcm_vars, ext_vars>>

MgrNext ==
    \/ StartHandlerThread
    \/ StopHandlerThreads
    \/ \E t \in ThreadNos : LoopCheck(t)
    \/ \E t \in ThreadNos : LoopDispatch(t)
    \/ \E t \in ThreadNos : LoopTimeout(t)
    \/ \E t \in ThreadNos : LoopDrainRaises(t)
    \/ \E t \in ThreadNos : LoopCallbackReturn(t)
    \/ BusReceive
    \/ \E u \in CallerNos : HandleOnceBegin(u)
    \/ \E u \in CallerNos : HandleOnceDispatch(u)
    \/ \E u \in CallerNos : HandleOnceReturn(u)

\* No feedback callback is running, no TopicSubscriber has subscribed, no
\* dispatch thread is in a callback.
ExtInit ==
    /\ client_lock = "free"
    /\ callback = [st |-> "none", goal |-> 0]
    /\ topic = [subscribed |-> FALSE, subscription |-> FALSE,
                received |-> <<>>, rejected |-> 0]
    /\ topic_chan = <<>>
    /\ dispatching = [t \in ThreadNos |-> NoDispatch]
    /\ lcm_subscriptions = [c \in ServerChannels |-> 0]

\* clients constructed with names of any length, dispatch threads started
\* by the endpoints' operations, and shutdown() of the manager
ConstructNext ==
    \/ \E e \in EndpointNos, L \in NameLens : Construct(e, L)
    \/ Shutdown
    \/ StartHandlerThread

\* the entry of publish(), call() and send_goal(), with instances of the
\* right type and of a wrong one, up to the publication
EntryNext ==
    \/ \E n \in CallNos : CallRejected(n)
    \/ \E n \in CallNos : CallLoadCounter(n)
    \/ \E n \in CallNos : CallStoreCounter(n)
    \/ \E n \in CallNos : CallReadId(n)
    \/ \E n \in CallNos : CallCreateSlot(n)
    \/ \E n \in CallNos : CallSubscribe(n)
    \/ \E n \in CallNos : CallPublish(n)
    \/ \E g \in GoalNos : SendRejected(g)
    \/ \E g \in GoalNos : SendLoadCounter(g)
    \/ \E g \in GoalNos : SendStoreCounter(g)
    \/ \E g \in GoalNos : SendReadId(g)
    \/ \E g \in GoalNos : SendRegister(g)
    \/ \E g \in GoalNos : SendSubscribe(g)
    \/ \E g \in GoalNos : SendPublish(g)
    \/ TopicSubscribe
    \/ TopicPublish
    \/ DeliverTopic

Init == SvcInit /\ ActInit /\ MgrInit /\ LcmInit /\ ExtInit

\* the action endpoints are constructed with a result type that has a
\* status field
StatusInit == Init /\ result_type = "status"

\* The service runtime: the action endpoints are constructed and unused.
Spec == StatusInit /\ [][SvcNext]_vars

\* The action runtime: the service endpoints are constructed and unused.
ActSpec == Init /\ [][ActNext]_vars

\* The action runtime with cancellation.
CallbackSpec == StatusInit /\ [][CallbackNext]_vars
AbandonSpec == StatusInit /\ [][AbandonNext]_vars
CancelSpec == StatusInit /\ [][CancelNext]_vars

\* The action runtime with feedback, one goal.
FeedbackSpec == StatusInit /\ [][FeedbackNext]_vars

\* The action runtime with feedback, several goals.
RoutingSpec == StatusInit /\ [][RoutingNext]_vars

\* The action client against a server of another process.
ResultSpec == Init /\ [][ResultNext]_vars

\* The bus manager: its dispatch threads, and user threads in handle_once().
MgrSpec == StatusInit /\ [][MgrNext]_vars

\* The bus manager as a singleton, and the construction of clients.
ConstructSpec == StatusInit /\ [][ConstructNext]_vars

\* What publish(), call() and send_goal() do with their argument.
EntrySpec == StatusInit /\ [][EntryNext]_vars

\* Endpoints of every kind, with their teardown.
TeardownSpec == StatusInit /\ [][TeardownNext]_vars

\* The action runtime with feedback callbacks that call back into the client.
LockSpec == StatusInit /\ [][LockNext]_vars

\* ================================================================ claims

\* a call that has been given its id and has not left call() yet
InFlight(n) == call[n].pc \in {"slot", "subscribe", "publish", "wait", "except", "finally"}

\* a goal that has been given its id and whose handle has no result yet
GoalInFlight(g) == send[g].id # 0 /\ handle[g].fut.st = "pending"

\* C1: no two in-flight calls of one ServiceClient carry the same
\* correlation id, and the slot the pending-response map holds under the id of
\* a waiting call is that call's own Future; likewise no two in-flight goals
\* of one ActionClient carry the same goal id.
C1_InFlightIdsDistinct ==
    /\ \A m, n \in CallNos :
         (m # n /\ InFlight(m) /\ InFlight(n)) => call[m].id # call[n].id
    /\ \A n \in CallNos :
         (call[n].pc = "wait" /\ call[n].fut.st = "pending"
            /\ call[n].id \in DOMAIN responses) => responses[call[n].id] = n
    /\ \A g, h \in GoalNos :
         (g # h /\ GoalInFlight(g) /\ GoalInFlight(h)) => send[g].id # send[h].id

\* C2: a response returned by call() carries the id stamped on that call's
\* request, and the Future of a call is only ever completed by the response
\* to that call's own request.
C2_ResponseMatchesRequest ==
    \A n \in CallNos :
        /\ call[n].out.kind = "return" => call[n].out.rsp.id = call[n].id
        /\ call[n].fut.st # "pending" => call[n].fut.rsp.req = n

\* every handling of a request by the server, as logged
Handlings == {e \in UNION {{srv_log[r][j] : j \in 1..Len(srv_log[r])} : r \in CallNos} : TRUE}

\* C3: each request the server accepted was handled once and got exactly
\* one response, published on "<channel>/rsp/<request id>" and carrying the
\* request's id.
C3_ExactlyOneResponse ==
    /\ \A r \in CallNos : Len(srv_log[r]) <= 1
    /\ \A e \in Handlings :
         /\ Len(e.published) = 1
         /\ e.published[1].chan = e.req.id
         /\ e.published[1].rsp.id = e.req.id

\* the handling of the request that response rsp answers
HandlingOf(rsp) == srv_log[rsp.req][1]

\* C4: when the handler raises with text m, the response published has
\* success = false and error_message = m, and a call whose wait that response
\* ends raises an error carrying m; it does not return a response.
C4_HandlerErrorReachesCaller ==
    /\ \A e \in Handlings :
         e.outcome.kind = "raise" =>
            /\ Len(e.published) = 1
            /\ ~e.published[1].rsp.success
            /\ e.published[1].rsp.error_message = e.outcome.text
    /\ \A n \in CallNos :
         (/\ call[n].fut.st # "pending"
          /\ HandlingOf(call[n].fut.rsp).outcome.kind = "raise"
          /\ call[n].out.kind \in {"return", "raise"})
         => /\ call[n].out.kind = "raise"
            /\ call[n].out.rsp.error_message = HandlingOf(call[n].fut.rsp).outcome.text

\* C4 witness: a call has ended by raising the text "bad" that the handler
\* raised for its request.
C4_Witness ==
    \E n \in CallNos :
        /\ call[n].pc = "done"
        /\ call[n].out.kind = "raise"
        /\ call[n].out.rsp.error_message = "bad"
        /\ call[n].out.rsp.req = n
        /\ HandlingOf(call[n].out.rsp).outcome = [kind |-> "raise", text |-> "bad"]

\* C5: in every response the server published, error_message is empty
\* exactly when success is true.
C5_ErrorMessageIffFailure ==
    \A e \in Handlings : \A j \in 1..Len(e.published) :
        (e.published[j].rsp.error_message = "") <=> e.published[j].rsp.success

\* C6: once call() has failed with a timeout error, the pending-response
\* map holds no slot under that call's id.
C6_NoSlotAfterTimeout ==
    \A n \in CallNos :
        (call[n].pc = "done" /\ call[n].out.kind = "timeout")
            => call[n].id \notin DOMAIN responses

\* calls between their subscribe and the unsubscribe of their finally clause
Subscribed == {n \in CallNos : call[n].pc \in {"publish", "wait", "except", "finally"}}

\* C7: the response subscriptions held are exactly those of the calls that
\* have subscribed and not yet run their finally clause, one each; so a call
\* that has left call(), by whatever path, holds none, and the number held
\* never exceeds the number of calls in progress.
C7_SubscriptionReleased ==
    /\ subscriptions = {[call |-> n, id |-> call[n].id] : n \in Subscribed}
    /\ Cardinality(subscriptions) = Cardinality(Subscribed)
    /\ \A n \in CallNos : call[n].pc = "done" =>
          \A s \in subscriptions : s.call # n

\* C7 witness: calls have left call() by a timeout and by a publish failure
\* while another call still holds its subscription.
C7_Witness ==
    /\ \E n \in CallNos : call[n].pc = "done" /\ call[n].out.kind \in {"timeout", "publish_error"}
    /\ \E n \in CallNos : call[n].pc = "wait"
    /\ Cardinality(subscriptions) = 1

\* a response on the bus whose call has already failed with a timeout
Late(rsp) == call[rsp.req].pc = "done" /\ call[rsp.req].out.kind = "timeout"

\* C8: the dispatch of a response whose call has already timed out
\* completes no Future and leaves the pending-response map unchanged.
C8_LateResponseDropped ==
    [][\A i \in Ids :
         (rsp_chan[i] # <<>> /\ Late(Head(rsp_chan[i])) /\ DeliverResponse(i))
            => (responses' = responses /\ call' = call)]_vars

\* cancel() invocations on handle g that are past their check
Cancelling(g) == {k \in CancelNos : cancel_call[k].pc \in {"publish", "set"} /\ cancel_call[k].h = g}

\* C9: whatever the number and interleaving of cancel() invocations on a
\* handle, at most one ActionCancel is published for its goal, and once an
\* invocation that published has returned the handle is cancelled.
C9_CancelIdempotent ==
    \A g \in GoalNos :
        /\ handle[g].cancels_published <= 1
        /\ (handle[g].cancels_published >= 1 /\ Cancelling(g) = {})
              => handle[g].cancelled

\* C10: in the cancel scenario every ActionCancel on the bus names the
\* goal in both fields, the server has removed the goal from its active map
\* once the cancel has reached it while the goal's handler was executing,
\* and a get_result that then ends with the goal's result raises with status
\* CANCELED or ABORTED.
C10_CancelScenario ==
    /\ \A j \in 1..Len(cancel_chan) :
         /\ cancel_chan[j].goal_id = cancel_chan[j].id
         /\ \E g \in GoalNos : handle[g].goal_id = cancel_chan[j].goal_id
    /\ \A g \in GoalNos :
         worker[g].cancel_received =>
            /\ worker[g].id \notin DOMAIN as_active_goals
            /\ handle[g].got.kind \in {"return", "raise"} =>
                  /\ handle[g].got.kind = "raise"
                  /\ handle[g].got.status \in {CANCELED, ABORTED}

\* the sequence numbers of the feedbacks the callbacks of handle g were given
ObservedSeqs(g) == [j \in 1..Len(handle[g].observed) |-> handle[g].observed[j].seq]

\* C11: when the handler of a goal has sent N feedbacks and returned, and
\* the client registered a feedback callback on the handle and its get_result
\* has ended with the goal's result, then the callback was given the N
\* feedbacks in send order and get_result returned with SUCCEEDED.
C11_AllFeedbackObserved ==
    \A g \in GoalNos :
        (/\ handle[g].got.cb
         /\ handle[g].got.kind \in {"return", "raise"}
         /\ worker[g].outcome.kind = "ok")
        => /\ handle[g].got.kind = "return"
           /\ handle[g].got.status = SUCCEEDED
           /\ ObservedSeqs(g) = [j \in 1..worker[g].fb_sent |-> j]

\* C12: every feedback given to the callbacks of a handle carries the
\* handle's goal id and was sent by the handler of that handle's goal.
C12_FeedbackRouted ==
    \A g \in GoalNos : \A j \in 1..Len(handle[g].observed) :
        /\ handle[g].observed[j].id = handle[g].goal_id
        /\ handle[g].observed[j].goal = g

\* C13: for every goal whose handler has ended, the server has published a
\* result carrying the goal's id: with status SUCCEEDED and message "" if the
\* handler returned a result, with status ABORTED and the error text if it
\* raised; and every result is on the channel of its id.
C13_ResultPublished ==
    /\ \A g \in GoalNos :
         worker[g].st \in {"cleanup", "dead"} =>
            /\ worker[g].published.id = worker[g].id
            /\ worker[g].outcome.kind \in {"ok", "unencodable"} =>
                  /\ worker[g].published.status = SUCCEEDED
                  /\ worker[g].published.message = ""
            /\ worker[g].outcome.kind = "raise" =>
                  /\ worker[g].published.status = ABORTED
                  /\ worker[g].published.message = worker[g].outcome.text
    /\ \A i \in GoalIds : \A j \in 1..Len(res_chan[i]) : res_chan[i][j].id = i

\* C14: every result the ActionServer has published, and every result on
\* the bus, carries status SUCCEEDED, ABORTED or CANCELED.
C14_TerminalStatusOnly ==
    /\ \A g \in GoalNos :
         worker[g].published # NoResult => worker[g].published.status \in TerminalStatuses
    /\ \A i \in GoalIds : \A j \in 1..Len(res_chan[i]) :
         res_chan[i][j].status \in TerminalStatuses

\* C14 witness: the server has published a SUCCEEDED result for a handler
\* that set CANCELED itself, and an ABORTED result.
C14_Witness ==
    /\ \E g \in GoalNos : /\ worker[g].published.status = SUCCEEDED
                          /\ worker[g].outcome.status = CANCELED
    /\ \E g \in GoalNos : worker[g].published.status = ABORTED

\* C15: a get_result that ends returns the result exactly when the handle
\* received a result with status SUCCEEDED, raises an error carrying the
\* status exactly when it received one with status ABORTED or CANCELED, and
\* raises a timeout error exactly when no result has been received.
C15_GetResultOutcomes ==
    [][\A g \in GoalNos :
         (handle[g].got.kind = "none" /\ handle'[g].got.kind # "none") =>
            LET f == handle[g].fut
                got == handle'[g].got
            IN  \/ f.st = "pending" /\ got.kind = "timeout"
                \/ /\ f.st # "pending"
                   /\ f.res.status = SUCCEEDED
                   /\ got.kind = "return"
                   /\ got.status = SUCCEEDED
                \/ /\ f.st # "pending"
                   /\ f.res.status \in {ABORTED, CANCELED}
                   /\ got.kind = "raise"
                   /\ got.status = f.res.status]_vars

\* C15 witness: get_result calls have ended in the three ways, one of them
\* raising with status CANCELED.
C15_Witness ==
    /\ \E g \in GoalNos : handle[g].got.kind = "raise" /\ handle[g].got.status = CANCELED
    /\ \E g \in GoalNos : handle[g].got.kind \in {"return", "timeout"}

\* C16: when a result for an active goal is dispatched to the client, the
\* goal leaves the active map and its handle is completed with the status the
\* result carries, whichever of the two result shapes the client was built with.
C16_ResultFulfilsHandle ==
    [][\A i \in GoalIds :
         (/\ DeliverResult(i)
          /\ \E s \in client_subscriptions : s.kind = "res" /\ s.id = i
          /\ Head(res_chan[i]).id \in DOMAIN active_goals)
         => LET r == Head(res_chan[i])
                g == active_goals[r.id]
            IN  /\ r.id \notin DOMAIN active_goals'
                /\ handle'[g].fut.st # "pending"
                /\ handle'[g].status = r.status]_vars

\* C17: a goal is in the client's active map from send_goal on, and is no
\* longer in it once its handle has received a terminal result or cancel()
\* has been called on the handle.
C17_ClientGoalLifetime ==
    \A g \in GoalNos :
        /\ (send[g].pc \in {"subscribe", "publish", "done"}
              /\ handle[g].fut.st = "pending" /\ handle[g].cancels_published = 0)
           => handle[g].goal_id \in DOMAIN active_goals
        /\ (handle[g].fut.st # "pending" \/ handle[g].cancelled)
           => handle[g].goal_id \notin DOMAIN active_goals

\* C18: the server's active map holds no entry whose worker thread has
\* terminated.
C18_NoDeadWorkerEntry ==
    \A g \in GoalNos :
        worker[g].st = "dead" =>
            ~(worker[g].id \in DOMAIN as_active_goals /\ as_active_goals[worker[g].id] = g)

\* C19: at most one dispatch thread is alive, and a start_handler_thread
\* that finds the manager running starts none.
C19_SingleDispatchWorker ==
    [][/\ Cardinality({t \in ThreadNos : thread'[t] \in {"check", "handle", "callback"}}) <= 1
       /\ (mgr_running /\ StartHandlerThread) => thread' = thread]_vars

\* C20: at most one thread is executing bus callbacks, and only a
\* dispatch thread of the manager drains the bus.
C20_SingleDispatcher ==
    /\ Cardinality({t \in ThreadNos : thread[t] = "callback"})
         + Cardinality({u \in CallerNos : caller[u] = "callback"}) <= 1
    /\ \A u \in CallerNos : caller[u] = "idle"

\* C21: no user code is invoked while an endpoint lock is held: no feedback
\* callback runs while the dispatch thread holds the ActionClient's
\* active-goal lock, and a callback that calls back into the client (stop)
\* never blocks on a lock its own thread holds.
C21_NoUserCodeUnderLock ==
    /\ callback.st # "none" => client_lock = "free"
    /\ callback.st # "blocked"

\* C22: an exception raised by a service handler, a topic callback or a
\* feedback callback, or by decoding a payload, does not reach the dispatch
\* loop: when such a callback is over the dispatch thread is back at the
\* top of its loop, and every subscription is still in place.
C22_FailureStaysInCallback ==
    [][\A t \in ThreadNos :
          (LoopCallbackReturn(t) /\ dispatching[t].fault # "none")
          => /\ thread'[t] = "check"
             /\ UNCHANGED <<subscriptions, srv_subscription, client_subscriptions,
                            as_subscriptions, topic>>]_vars

\* a dispatch thread that has been through a failing callback is running
\* the callback of a later message
C22_Witness ==
    \E t \in ThreadNos :
        /\ dispatching[t].survived
        /\ thread[t] = "callback"
        /\ dispatching[t].fault = "none"

C24_OneBusHandle ==
    /\ lcm_count <= 1
    /\ \A e \in EndpointNos :
          endpoints[e].st = "ok" =>
             /\ endpoints[e].lcm = endpoints[1].lcm
             /\ instance # 0 => endpoints[e].lcm = instance

\* C28: constructing a client with a client_name of length L succeeds for
\* L in 1..16, keeping that name, and fails for L >= 17, leaving no endpoint
\* state (no handle is fetched, no manager created); without a client_name
\* the client gets a generated name of at most 16 characters.
C28_ClientNameLength ==
    [][\A e \in EndpointNos, L \in NameLens :
          Construct(e, L) =>
             /\ L \in 1..MAX_CLIENT_NAME_LENGTH =>
                    endpoints'[e].st = "ok" /\ endpoints'[e].name_len = L
             /\ L > MAX_CLIENT_NAME_LENGTH =>
                    /\ endpoints'[e].st = "error"
                    /\ endpoints'[e].lcm = 0
                    /\ UNCHANGED <<instance, lcm_count>>
             /\ L = 0 =>
                    /\ endpoints'[e].st = "ok"
                    /\ endpoints'[e].name_len \in 1..MAX_CLIENT_NAME_LENGTH]_vars

\* one client was constructed with a name of 16 characters, another was
\* refused a name of 17, a third was given no name
C28_Witness ==
    \E e1, e2, e3 \in EndpointNos :
        /\ endpoints[e1].arg = MAX_CLIENT_NAME_LENGTH /\ endpoints[e1].st = "ok"
        /\ endpoints[e2].arg = MAX_CLIENT_NAME_LENGTH + 1 /\ endpoints[e2].st = "error"
        /\ endpoints[e3].arg = 0 /\ endpoints[e3].st = "ok"

\* the calls that have been given an id
Allocated == {n \in CallNos : call[n].id # 0}

\* C25: the k-th request of a client carries the id "<client_name>_<k>": the
\* counter starts at 1 and grows by exactly one per request, whatever
\* became of the earlier calls, so that no id is given twice during the
\* client's lifetime.
C25_KthRequestCarriesK ==
    /\ request_counter = Cardinality({n \in CallNos : call[n].pc \notin {"idle", "store"}})
    /\ {call[n].id : n \in Allocated} = 1..Cardinality(Allocated)
    /\ \A m, n \in Allocated : m # n => call[m].id # call[n].id

\* C26: call() and send_goal() stamp id and timestamp_us on a copy: the
\* instance the caller passed in keeps the header it had, and every
\* published request or goal carries the payload of a caller's instance
\* under a header stamped with that call's id and with the time.
C26_StampedOnCopy ==
    /\ \A n \in CallNos : call[n].request = UserMessage(n)
    /\ \A g \in GoalNos : send[g].request = UserMessage(g)
    /\ \A j \in 1..Len(req_chan) :
          /\ req_chan[j].timestamp_us # 0
          /\ \E n \in CallNos :
                /\ call[n].pc = "wait"
                /\ req_chan[j].body = call[n].request.body
                /\ req_chan[j].id = call[n].id /\ call[n].id # 0
    /\ \A j \in 1..Len(goal_chan) :
          /\ goal_chan[j].timestamp_us # 0
          /\ \E g \in GoalNos :
                /\ send[g].pc = "done"
                /\ goal_chan[j].body = send[g].request.body
                /\ goal_chan[j].id = send[g].id /\ send[g].id # 0

\* a request and a goal have been published
C26_Witness ==
    /\ req_chan # <<>>
    /\ goal_chan # <<>>

\* C27: publish(), call() and send_goal() given an instance of a wrong type
\* fail before any effect: nothing is published, no subscription is made,
\* no slot or handle is registered, no id is consumed, no dispatch thread
\* is started.
C27_WrongTypeNoEffect ==
    [][/\ (\E n \in CallNos : call[n].out.kind # "type_error"
                              /\ call'[n].out.kind = "type_error")
          => UNCHANGED <<request_counter, responses, subscriptions, req_chan,
                         rsp_chan, mgr_vars, lcm_vars>>
       /\ (\E g \in GoalNos : send[g].pc # "rejected" /\ send'[g].pc = "rejected")
          => UNCHANGED <<goal_counter, active_goals, handle, client_subscriptions,
                         goal_chan, mgr_vars, lcm_vars>>
       /\ topic'.rejected # topic.rejected
          => UNCHANGED <<topic_chan, mgr_vars, lcm_vars>>]_vars

\* each of the three operations has refused an instance
C27_Witness ==
    /\ \E n \in CallNos : call[n].out.kind = "type_error"
    /\ \E g \in GoalNos : send[g].pc = "rejected"
    /\ topic.rejected > 0

\* C29: call() publishes its request only after the pending-response slot
\* for its id is in the map and its subscription to "<service>/rsp/<id>" is
\* registered, so that no response can arrive before the client is ready
\* for it.
C29_PublishAfterSlotAndSubscription ==
    [][\A n \in CallNos :
          (call[n].pc = "publish" /\ call'[n].pc = "wait")
          => /\ call[n].id \in DOMAIN responses
             /\ [call |-> n, id |-> call[n].id] \in subscriptions]_vars

\* C30: send_goal() publishes the goal only after the handle is registered
\* in the active-goal map and the feedback and result subscriptions of the
\* goal are in place; the handle it returns has status ACCEPTED, and the
\* status stays ACCEPTED until a result for that goal id is processed.
C30_GoalPublishedWhenReady ==
    [][\A g \in GoalNos :
          /\ (send[g].pc = "publish" /\ send'[g].pc = "done")
             => /\ send[g].id \in DOMAIN active_goals
                /\ [kind |-> "fb", id |-> send[g].id, goal |-> g] \in client_subscriptions
                /\ [kind |-> "res", id |-> send[g].id, goal |-> g] \in client_subscriptions
                /\ handle'[g].status = ACCEPTED
          /\ (handle[g].status = ACCEPTED /\ handle'[g].status # ACCEPTED)
             => /\ res_chan[handle[g].goal_id] # <<>>
                /\ res_chan'[handle[g].goal_id] = Tail(res_chan[handle[g].goal_id])]_vars

\* C31: an ActionCancel the server receives removes the named goal from the
\* server's active-goal map if it is there and changes nothing else (no
\* worker is terminated, no result is published by the cancel path, and a
\* cancel for an id that is not active changes no state); and a goal that
\* was cancelled while its handler was executing has had exactly one result
\* published for it once its worker has ended.
C31_CancelIsCooperative ==
    [][/\ (DeliverCancel /\ "cancel" \in as_subscriptions)
            => LET goal_id == Head(cancel_chan).goal_id
               IN  /\ res_chan' = res_chan
                   /\ \A g \in GoalNos :
                        /\ worker'[g].st = worker[g].st
                        /\ worker'[g].published = worker[g].published
                   /\ goal_id \in DOMAIN as_active_goals
                        => /\ goal_id \notin DOMAIN as_active_goals'
                           /\ \A i \in DOMAIN as_active_goals \ {goal_id} :
                                /\ i \in DOMAIN as_active_goals'
                                /\ as_active_goals'[i] = as_active_goals[i]
                   /\ goal_id \notin DOMAIN as_active_goals
                        => (as_active_goals' = as_active_goals /\ worker' = worker)
       /\ \A g \in GoalNos :
            (worker'[g].cancel_received /\ worker'[g].st \in {"cleanup", "dead"})
               => worker'[g].published.id = worker'[g].id]_vars

\* C32: the goal callback of the server returns with the goal's worker
\* started and its handler not yet ended, touching no other worker and
\* publishing nothing; and while the handler of a goal is executing (for
\* ever, if it blocks) the next goal can still be dispatched, every other
\* executing handler can still end and publish, and a result on the bus can
\* still be dispatched to the client.
C32_GoalsRunInOwnWorkers ==
    /\ [][(DeliverGoal /\ "goal" \in as_subscriptions)
            => LET goal == Head(goal_chan)
               IN  /\ worker'[goal.body].st = "running"
                   /\ worker'[goal.body].outcome = NoWorkerOutcome
                   /\ worker'[goal.body].published = NoResult
                   /\ \A h \in GoalNos \ {goal.body} : worker'[h] = worker[h]
                   /\ res_chan' = res_chan]_vars
    /\ [](\A g \in GoalNos :
            worker[g].st = "running"
               => /\ goal_chan # <<>> => ENABLED DeliverGoal
                  /\ \A h \in GoalNos \ {g} :
                        worker[h].st = "running" => ENABLED WorkerPublish(h)
                  /\ \A i \in GoalIds :
                        res_chan[i] # <<>> => ENABLED DeliverResult(i))

\* the handler of one goal is still executing while the other goal has
\* ended and its result has reached its handle
C32_Witness ==
    \E g, h \in GoalNos :
        /\ g # h
        /\ worker[g].st = "running"
        /\ worker[h].st \in {"cleanup", "dead"}
        /\ worker[h].published.id = worker[h].id
        /\ worker[g].id # worker[h].id
        /\ handle[h].fut.st # "pending"

\* C33: when a feedback message is dispatched and handle_feedback routes it
\* to a handle (once for each subscription of the channel), each routing
\* invokes every callback registered on the handle once, in registration
\* order, whether or not a callback before it raised, for the first message
\* and for every later one; the callbacks of other handles are not invoked.
C33_EveryCallbackInOrder ==
    [][\A i \in GoalIds :
         (DeliverFeedback(i) /\ Head(fb_chan[i]).id \in DOMAIN active_goals)
         => LET feedback == Head(fb_chan[i])
                g == active_goals[feedback.id]
                n == Len(handle[g].feedback_callbacks)
                k == Cardinality({s \in client_subscriptions : s.kind = "fb" /\ s.id = i})
                before == Len(handle[g].observed)
            IN  /\ Len(handle'[g].observed) = before + k * n
                /\ \A j \in 1..before : handle'[g].observed[j] = handle[g].observed[j]
                /\ \A r \in 0..(k - 1) : \A j \in 1..n :
                      handle'[g].observed[before + r * n + j] = Invocation(feedback, j)
                /\ \A h \in GoalNos \ {g} : handle'[h] = handle[h]]_vars

\* a handle with two callbacks, the first of which raises, has been given two
\* feedback messages, and the second callback was invoked for the later one
C33_Witness ==
    \E g \in GoalNos :
        /\ Len(handle[g].feedback_callbacks) = 2
        /\ handle[g].feedback_callbacks[1] = "raises"
        /\ \E j \in 1..Len(handle[g].observed) :
              /\ handle[g].observed[j].cb = 2
              /\ handle[g].observed[j].seq = 2

\* C34: an invocation of cancel() that finds the handle's status terminal
\* ends at once: it publishes nothing and leaves the handle, is_cancelled
\* included, as it is.  One that finds the status ACCEPTED or EXECUTING (and
\* the handle not yet cancelled) publishes one ActionCancel whose header.id
\* and goal_id are the handle's goal id, and then sets is_cancelled.  Nothing
\* else puts a message on the cancel channel or sets is_cancelled.
C34_CancelOnlyWhileActive ==
    [][/\ \A k \in CancelNos : \A g \in GoalNos :
            CancelCheck(k, g)
               => /\ handle' = handle
                  /\ cancel_chan' = cancel_chan
                  /\ handle[g].status \in TerminalStatuses
                        => cancel_call'[k].pc = "done"
                  /\ (handle[g].status \in {ACCEPTED, EXECUTING} /\ ~handle[g].cancelled)
                        => cancel_call'[k] = [pc |-> "publish", h |-> g]
       /\ \A k \in CancelNos :
            CancelPublish(k)
               => LET goal_id == handle[cancel_call[k].h].goal_id
                  IN  /\ cancel_chan' = Append(cancel_chan, [id |-> goal_id, goal_id |-> goal_id])
                      /\ cancel_call'[k].pc = "set"
       /\ \A k \in CancelNos :
            CancelSet(k) => handle'[cancel_call[k].h].cancelled
       /\ Len(cancel_chan') > Len(cancel_chan)
            => \E k \in CancelNos : CancelPublish(k)
       /\ \A g \in GoalNos :
            (handle'[g].cancelled /\ ~handle[g].cancelled)
               => \E k \in CancelNos : CancelSet(k) /\ cancel_call[k].h = g]_vars

\* the result of a goal has arrived, and a cancel() invoked on the handle
\* after that has ended without publishing and without setting is_cancelled
C34_Witness ==
    /\ \E k \in CancelNos : cancel_call[k].pc = "done"
    /\ \E g \in GoalNos :
         /\ handle[g].status \in TerminalStatuses
         /\ ~handle[g].cancelled
         /\ handle[g].cancels_published = 0

\* the dispatch threads the manager has started since the last
\* stop_handler_threads and whose loop was ended by an exception of the
\* bus drain (a loop ended by the cleared flag ends after a stop, which
\* clears the list)
Crashed == {t \in handler_threads : thread[t] = "dead"}

\* C35: a bus drain that raises ends the loop of its dispatch thread and
\* leaves the running flag set; from then until stop_handler_threads is
\* called the flag stays set, a start_handler_thread (direct or implied by
\* an endpoint operation) starts no thread, and no callback is dispatched.
C35_DeadWorkerStaysDead ==
    [][/\ \A t \in ThreadNos :
            LoopDrainRaises(t) => (thread'[t] = "dead" /\ mgr_running' /\ t \in Crashed')
       /\ Crashed # {}
            => /\ mgr_running
               /\ StopHandlerThreads \/ (mgr_running' /\ Crashed \subseteq Crashed')
               /\ \A t \in ThreadNos : thread[t] = "none" => thread'[t] = "none"
               /\ \A t \in ThreadNos : thread'[t] = "callback" => thread[t] = "callback"
               /\ \A u \in CallerNos : caller'[u] = "callback" => caller[u] = "callback"]_vars

\* C36: a handle that has processed a terminal result is inert: from then
\* on its status and its completed Future stay as they are and none of its
\* feedback callbacks is invoked, whatever results and feedbacks carrying
\* its goal id are dispatched afterwards; and its goal id is no longer
\* mapped to it in the active-goal map.
C36_TerminalHandleInert ==
    [][\A g \in GoalNos :
          handle[g].fut.st # "pending"
             => /\ handle'[g].status = handle[g].status
                /\ handle'[g].fut = handle[g].fut
                /\ handle'[g].observed = handle[g].observed
                /\ handle[g].status \in TerminalStatuses
                /\ ~(handle[g].goal_id \in DOMAIN active_goals
                       /\ active_goals[handle[g].goal_id] = g)]_vars

\* two goals were sent under one id; the results of both workers have been
\* dispatched, the first of them completed one handle and the second, a
\* duplicate for that handle's id, found no active goal
C36_Witness ==
    \E g, h \in GoalNos :
        /\ g # h
        /\ handle[g].goal_id = handle[h].goal_id
        /\ handle[g].fut.st # "pending"
        /\ handle[g].feedback_callbacks # <<>>
        /\ send[h].pc = "done" /\ handle[h].fut.st = "pending"
        /\ worker[g].published # NoResult /\ worker[h].published # NoResult
        /\ worker[g].fb_sent + worker[h].fb_sent > 0
        /\ res_chan[handle[g].goal_id] = <<>>
        /\ fb_chan[handle[g].goal_id] = <<>>

\* C37: whenever no call() is in progress on the ServiceClient, its
\* pending-response map is empty.
C37_NoSlotLeftBehind ==
    (\A n \in CallNos : call[n].pc \in {"idle", "done"}) => DOMAIN responses = {}

\* C38: between two stop() calls the ActionClient holds two subscriptions
\* for every goal it has sent since the first: each step other than stop()
\* adds two subscriptions for each goal whose send_goal subscribes in it and
\* releases none; in particular the dispatch of a result that removes a goal
\* from the active map leaves the subscriptions as they are.
C38_SubscriptionsKeptUntilStop ==
    [][/\ ClientStop
          \/ /\ client_subscriptions \subseteq client_subscriptions'
             /\ Cardinality(client_subscriptions') =
                   Cardinality(client_subscriptions)
                   + 2 * Cardinality({g \in GoalNos : send[g].pc = "subscribe"
                                                      /\ send'[g].pc = "publish"})
       /\ \A i \in GoalIds :
            (DeliverResult(i) /\ DOMAIN active_goals' # DOMAIN active_goals)
               => client_subscriptions' = client_subscriptions]_vars

\* both goals have been sent, the result of one has completed its handle
\* and removed it from the active map, and the client holds four
\* subscriptions
C38_Witness ==
    /\ \A g \in GoalNos : send[g].pc = "done"
    /\ \E g \in GoalNos :
         /\ handle[g].fut.st # "pending"
         /\ handle[g].goal_id \notin DOMAIN active_goals
    /\ Cardinality(client_subscriptions) = 2 * MaxGoals

\* a handle that send_goal has registered, that has no result, and that the
\* active-goal map does not hold
Abandoned(g) ==
    /\ send[g].pc \in {"subscribe", "publish", "done"}
    /\ handle[g].fut.st = "pending"
    /\ ~(handle[g].goal_id \in DOMAIN active_goals /\ active_goals[handle[g].goal_id] = g)

\* C39: stop() of the ActionClient abandons every registered handle that has
\* no result yet, and an abandoned handle stays as it is for ever: its
\* status remains ACCEPTED, its Future stays pending whatever results are
\* published and dispatched afterwards, and a get_result on it ends by
\* timeout only.
C39_StoppedHandleNeverResolves ==
    [][\A g \in GoalNos :
          /\ (ClientStop /\ send[g].pc \in {"subscribe", "publish", "done"}
                /\ handle[g].fut.st = "pending")
             => Abandoned(g)'
          /\ Abandoned(g)
             => /\ Abandoned(g)'
                /\ handle'[g].status = ACCEPTED
                /\ handle'[g].got.kind \in {"none", "timeout"}]_vars

\* a goal was sent and the client stopped before its result was dispatched;
\* the server has published the result since and it has been dispatched, and
\* a get_result on the handle has timed out
C39_Witness ==
    \E g \in GoalNos :
        /\ send[g].pc = "done"
        /\ \A h \in GoalNos \ {g} : send[h].id # send[g].id
        /\ handle[g].fut.st = "pending"
        /\ handle[g].got.kind = "timeout"
        /\ active_goals = <<>> /\ client_subscriptions = {}
        /\ goal_chan = <<>>
        /\ res_chan[send[g].id] = <<>>

\* C40: whatever start() and stop() calls the servers have been given, the
\* bus handle holds exactly one subscription of the request channel while
\* the ServiceServer is running and none while it is not, and exactly one of
\* the goal channel and one of the cancel channel while the ActionServer is
\* running and none while it is not; and the subscriptions the servers
\* record are those.  (Each message is handed to one callback invocation for
\* each subscription of its channel.)
C40_StartStopIdempotent ==
    /\ lcm_subscriptions["req"] = (IF srv_running THEN 1 ELSE 0)
    /\ srv_subscription = srv_running
    /\ lcm_subscriptions["goal"] = (IF as_running THEN 1 ELSE 0)
    /\ lcm_subscriptions["cancel"] = (IF as_running THEN 1 ELSE 0)
    /\ as_subscriptions = (IF as_running THEN {"goal", "cancel"} ELSE {})

\* the ActionServer was started, received a goal, was stopped while the
\* goal's handler was executing and has been started again; the
\* ServiceServer is running
C40_Witness ==
    /\ as_running
    /\ srv_running
    /\ \E g \in GoalNos :
         /\ worker[g].st = "running"
         /\ worker[g].id \notin DOMAIN as_active_goals

====
